---------------------------- MODULE Spec2Model ----------------------------
(***************************************************************************)
(* A model of the client side of the workshop application: the video       *)
(* store (frontend/src/stores/video.ts), the session store's timer events  *)
(* and the HeaderTimer component.                                          *)
(*                                                                         *)
(* The specifications share the variables; among them:                     *)
(*   Spec       several clients and the signaling relay: joining, the      *)
(*              offer/answer negotiation, leaving;                         *)
(*   SpecStore  one video store and every signaling event it can be        *)
(*              handed, in any order (the transport is at-least-once);     *)
(*   SpecMedia  one video store: local media, connections and screen       *)
(*              sharing;                                                   *)
(*   SpecAI     one video store: connections and the AI audio fan-out;     *)
(*   SpecTimer  one client's timer (session store + HeaderTimer) and every *)
(*              timer event it can be handed;                              *)
(*   SpecRoom   two clients and the timer backend;                         *)
(*   SpecAgent  the AI panels of two clients;                              *)
(*   SpecMute   one video store: muting, leaving and rejoining;            *)
(*   SpecNegotiation  one video store: offers, answers, candidates and     *)
(*              the connection callbacks;                                  *)
(*   SpecTransport  one client's signaling transport going up and down;    *)
(*   SpecDial   one client connecting to the AI voice endpoint;            *)
(*   SpecScreen one video store and its screen share button;               *)
(*   SpecHost   one video store and the agent's audio stream;              *)
(*   SpecInterval  one client's tick interval;                             *)
(*   SpecStart  two clients starting the workshop through the relay;       *)
(*   SpecPhase  two clients, the phase expiry and the session phase.       *)
(***************************************************************************)
EXTENDS Integers, Sequences, FiniteSets, TLC

\* ------------------------------------------------------------- bounds

\* Connections (RTCPeerConnection objects) one client may create.
MaxConns == 2
\* Screen streams one client may acquire (getDisplayMedia results).
MaxScreens == 2
\* Largest elapsed-seconds value of the timer model.
MaxElapsed == 3
\* Timer events that may wait in one client's inbox in SpecRoom.
MaxInbox == 1
\* Timer events that may wait in one client's inbox in SpecStart.
MaxPending == 2
\* Timer events that may wait in one client's inbox in SpecPhase.
MaxQueued == 3
\* How far from a warning threshold the elapsed values of SpecThresholds
\* reach.
MaxJump == 1

\* ---------------------------------------------------------- constants

Clients == {"A", "B", "C"}

\* The client whose store SpecStore and SpecTimer exercise.
Self == "A"

\* video.ts 408: the reserved id of the synthetic AI participant.
AI == "ai-facilitator"

PeerIds == Clients \cup {AI}

\* AI audio streams (the agent connection's inbound stream, per connect).
AIStreams == {1, 2}

VARIABLES
  \* ---- video store, per client (video.ts 27-42)
  localStream,      \* has: a stream is held; video, audio: it has a track
                    \* of the kind; videoEnabled, audioEnabled: the
                    \* track's enabled flag
  audioMuted,       \* BOOLEAN
  videoMuted,       \* BOOLEAN
  screenStream,     \* 0 (null) or the id of the screen stream held
  isScreenSharing,  \* BOOLEAN
  screenCount,      \* screen streams acquired so far (ids 1..screenCount)
  screenPending,    \* startScreenShare calls suspended at getDisplayMedia
  liveScreens,      \* ids of the screen streams whose tracks are live
  socket,           \* BOOLEAN: socket.value is set (connectVideo was called)
  peers,            \* the Map: a function from the ids present to entries
  conns,            \* every RTCPeerConnection created, in creation order
  tasks,            \* async handlers suspended at an await
  aiAudioStream,    \* 0 (null) or the AI stream id
  aiConnected,      \* BOOLEAN
  isAIHost,         \* BOOLEAN
  aiConnection,     \* BOOLEAN: aiConnection.value is non-null
  out,              \* what the last step emitted on the socket
  thrown,           \* the call whose error the last step threw to its
                    \* caller ("": none)
  connected,        \* per client: connected.value of the session store
                    \* (part_000 66), the transport is up
  unmatched,        \* the last step handled an answer or a candidate
                    \* whose sender has no connection in the registry,
                    \* or a mute status whose sender has no entry
  screenEnded,      \* the screen stream whose track's ended callback ran
                    \* in the last step (0: none)
  \* ---- signaling relay and transport
  inbox,            \* per client: events sent to it, not yet handled
  room,             \* the clients in the video room
  joinSeq,          \* every client that joined, in join order
  gone,             \* per client: ids that had an entry when the client
                    \* handled their video_peer_left
  \* ---- session store timer state and HeaderTimer, per client
  workshopStartedAt,     \* -1 (null) or the start time in seconds
  isWorkshopRunning,
  isPaused,
  syncedElapsedSeconds,
  elapsedSeconds,
  isRunning,
  timerInterval,         \* BOOLEAN: an interval handle is held
  intervals,             \* the number of intervals set and not cleared
  now,                   \* wall clock, seconds
  lastTimerMsg,          \* the timer event handled by the last step
  mounted,               \* BOOLEAN: the HeaderTimer component is mounted
  phase,                 \* session.phase as the client holds it
  sessionStartedAt,      \* session.started_at as the client holds it (-1:
                         \* undefined)
  warningsSent,          \* the keys HeaderTimer has notified
  raised,                \* the notifications HeaderTimer emitted since the
                         \* last reset: the keys emitted, and those emitted
                         \* more than once
  serverStartedAt,       \* started_at of the session record the backend
                         \* serves (-1: not started)
  serverPhase,           \* phase of that record
  \* ---- AI panel, per client (AIFeedbackPanel.vue 14-20)
  aiPanel                \* peerConnection: "none" (null, never dialled),
                         \* "open", or "closed" (closed and null again);
                         \* isConnected: the data channel is open;
                         \* tracked: its ontrack has fired; told: the client
                         \* handled ai_connected from another client and no
                         \* ai_disconnected since; dialledTold: it dialled
                         \* the agent while told; error: error.value
                         \* ("": null), the step of connectAI that failed

storeVars == <<localStream, audioMuted, videoMuted, screenStream, isScreenSharing, screenCount,
               screenPending, liveScreens, socket, peers, conns, tasks, aiAudioStream,
               aiConnected, isAIHost, aiConnection, out>>
relayVars == <<inbox, room, joinSeq>>
timerVars == <<workshopStartedAt, isWorkshopRunning, isPaused,
               syncedElapsedSeconds, elapsedSeconds, isRunning,
               timerInterval, intervals, now, lastTimerMsg, mounted, phase,
               sessionStartedAt, warningsSent, raised, serverStartedAt,
               serverPhase>>
vars == <<storeVars, relayVars, gone, timerVars, aiPanel, thrown,
         connected, unmatched, screenEnded>>

\* The step is neither a transport event, nor the ended callback of a
\* screen track, nor the handling of a message whose sender is unknown.
Ordinary ==
  /\ screenEnded' = 0
  /\ unmatched' = FALSE
  /\ UNCHANGED connected

\* ------------------------------------------------------------- tracks

\* A MediaStreamTrack: its kind and where it comes from.
CamTrack == [kind |-> "video", src |-> "camera", id |-> 0]
MicTrack == [kind |-> "audio", src |-> "mic", id |-> 0]
ScreenTrack(k) == [kind |-> "video", src |-> "screen", id |-> k]
AITrack(s) == [kind |-> "audio", src |-> "ai", id |-> s]

NoStream ==
  [has |-> FALSE, video |-> FALSE, audio |-> FALSE,
   videoEnabled |-> FALSE, audioEnabled |-> FALSE]

\* localStream.getTracks()
GetTracks(ls) ==
  (IF ls.has /\ ls.audio THEN <<MicTrack>> ELSE <<>>) \o
  (IF ls.has /\ ls.video THEN <<CamTrack>> ELSE <<>>)

\* ---------------------------------------------------------------- Map

MapSet(m, k, v) == [q \in DOMAIN m \cup {k} |-> IF q = k THEN v ELSE m[q]]
MapDelete(m, k) == [q \in DOMAIN m \ {k} |-> m[q]]
EmptyMap == [q \in {} |-> 0]

\* A registry entry (interface Peer, video.ts 8-15): conn is the index in
\* conns of its connection (0: undefined), stream the stream shown for it
\* (0: undefined).
Entry(conn, stream, am, vm) ==
  [conn |-> conn, stream |-> stream, audioMuted |-> am, videoMuted |-> vm]

\* ------------------------------------------------------------ messages

Msg(kind, from, target, list) ==
  [kind |-> kind, from |-> from, target |-> target, list |-> list]


\* What a step that emits nothing leaves in out.
NoEmit == <<>>

\* The step threw nothing.
NoError == ""

\* socket.value?.emit(...): nothing is sent while there is no socket.
Emit(c, msgs) == IF socket[c] THEN msgs ELSE NoEmit

\* -------------------------------------------------- peer connections

\* new RTCPeerConnection and the addTrack of every local track
\* (createPeerConnection, video.ts 213-220).  local / remote are the types
\* of the descriptions applied so far, ice whether a candidate of the
\* remote side has been added.
NewConnection(ls, p) ==
  [peer |-> p, closed |-> FALSE, senders |-> GetTracks(ls),
   local |-> "none", remote |-> "none", ice |-> FALSE]

\* A variant of createPeerConnection that starts the registry afresh with
\* the one entry.
CreatePeerConnectionAlone(ls, cs, ps, p) ==
  LET pc == Len(cs) + 1
  IN [pc |-> pc,
      conns |-> Append(cs, NewConnection(ls, p)),
      peers |-> MapSet(EmptyMap, p, Entry(pc, 0, FALSE, FALSE))]

\* createPeerConnection up to its first await (video.ts 212-250): the new
\* connection is appended to cs and stored in the registry ps under p,
\* keeping what an existing entry holds ({...existing}).
CreatePeerConnection(ls, cs, ps, p) ==
  LET pc == Len(cs) + 1
      has == p \in DOMAIN ps
  IN [pc |-> pc,
      conns |-> Append(cs, NewConnection(ls, p)),
      peers |-> MapSet(ps, p,
                  Entry(pc,
                        IF has THEN ps[p].stream ELSE 0,
                        IF has THEN ps[p].audioMuted ELSE FALSE,
                        IF has THEN ps[p].videoMuted ELSE FALSE))]

\* connection.close() on the entry's connection, when it has one.
CloseOf(cs, e) ==
  IF e.conn # 0 THEN [cs EXCEPT ![e.conn].closed = TRUE] ELSE cs

\* A suspended async handler: which handler, the connection it awaits on,
\* that connection's peer, and (video_peers) the peers still to visit.
Task(kind, pc, p, rest) == [kind |-> kind, pc |-> pc, peer |-> p, rest |-> rest]

mediaVars == <<localStream, audioMuted, videoMuted, screenStream, isScreenSharing, screenCount,
               screenPending, liveScreens, socket>>
aiVars == <<aiAudioStream, aiConnected, isAIHost, aiConnection>>

\* ------------------------------------------------ socket event handlers

\* socket.on('video_peers') (video.ts 159-164): createPeerConnection(peerId,
\* true) for the first peer runs to its await; the rest of the loop waits.
HandleVideoPeers(c, list) ==
  /\ IF list = <<>>
       THEN UNCHANGED <<peers, conns, tasks>>
       ELSE LET r == CreatePeerConnection(localStream[c], conns[c], peers[c],
                                          Head(list))
            IN /\ Len(conns[c]) < MaxConns
               /\ conns' = [conns EXCEPT ![c] = r.conns]
               /\ peers' = [peers EXCEPT ![c] = r.peers]
               /\ tasks' = [tasks EXCEPT ![c] =
                              @ \cup {Task("video_peers", r.pc, Head(list),
                                           Tail(list))}]
  /\ out' = NoEmit
  /\ UNCHANGED <<mediaVars, aiVars>>

\* createPeerConnection after `await pc.createOffer()` and `await
\* pc.setLocalDescription(offer)` (video.ts 253-263), then the next turn of
\* the video_peers loop (161-163).  On a connection closed meanwhile the
\* awaited promise never fulfils, so the handler does not continue.
ResumeCreateOffer(c, t) ==
  /\ t \in tasks[c]
  /\ t.kind = "video_peers"
  /\ IF conns[c][t.pc].closed
       THEN /\ tasks' = [tasks EXCEPT ![c] = @ \ {t}]
            /\ out' = NoEmit
            /\ UNCHANGED <<peers, conns>>
       ELSE LET cs1 == [conns[c] EXCEPT ![t.pc].local = "offer"]
                offer == Msg("video_offer", c, t.peer, <<>>)
            IN IF t.rest = <<>>
                 THEN /\ conns' = [conns EXCEPT ![c] = cs1]
                      /\ tasks' = [tasks EXCEPT ![c] = @ \ {t}]
                      /\ out' = Emit(c, <<offer>>)
                      /\ UNCHANGED peers
                 ELSE LET r == CreatePeerConnection(localStream[c], cs1,
                                                    peers[c], Head(t.rest))
                      IN /\ Len(cs1) < MaxConns
                         /\ conns' = [conns EXCEPT ![c] = r.conns]
                         /\ peers' = [peers EXCEPT ![c] = r.peers]
                         /\ tasks' = [tasks EXCEPT ![c] =
                                (@ \ {t}) \cup
                                {Task("video_peers", r.pc, Head(t.rest),
                                      Tail(t.rest))}]
                         /\ out' = Emit(c, <<offer>>)
  /\ UNCHANGED <<mediaVars, aiVars>>

\* A variant of the video_peer_joined handler in which the client already
\* present opens the negotiation, as the newcomer does on video_peers.
HandleVideoPeerJoinedOffering(c, p) ==
  HandleVideoPeers(c, <<p>>)

\* socket.on('video_peer_joined') (video.ts 166-174): a fresh entry, with
\* no connection, is stored under the id.
HandleVideoPeerJoined(c, p) ==
  /\ peers' = [peers EXCEPT ![c] = MapSet(@, p, Entry(0, 0, FALSE, FALSE))]
  /\ out' = NoEmit
  /\ UNCHANGED <<conns, tasks, mediaVars, aiVars>>

\* A variant of the video_peer_left handler that deletes the entry and
\* leaves its connection open.
HandleVideoPeerLeftNoClose(c, p) ==
  /\ peers' = [peers EXCEPT ![c] = MapDelete(@, p)]
  /\ out' = NoEmit
  /\ UNCHANGED <<conns, tasks, mediaVars, aiVars>>

\* socket.on('video_peer_left') (video.ts 176-182): the entry's connection,
\* when it has one, is closed, then the entry is deleted.
HandleVideoPeerLeft(c, p) ==
  /\ conns' = [conns EXCEPT ![c] =
                 IF p \in DOMAIN peers[c] THEN CloseOf(@, peers[c][p]) ELSE @]
  /\ peers' = [peers EXCEPT ![c] = MapDelete(@, p)]
  /\ out' = NoEmit
  /\ UNCHANGED <<tasks, mediaVars, aiVars>>

\* A variant of the video_offer handler in which the receiver of an offer
\* opens a negotiation of its own towards the sender.
HandleVideoOfferAsInitiator(c, p) ==
  HandleVideoPeers(c, <<p>>)

\* socket.on('video_offer') -> handleOffer up to its first await
\* (video.ts 184-186, 267-268): createPeerConnection(fromId, false) stores
\* the connection before anything else can run.
HandleVideoOffer(c, p) ==
  LET r == CreatePeerConnection(localStream[c], conns[c], peers[c], p)
  IN /\ Len(conns[c]) < MaxConns
     /\ conns' = [conns EXCEPT ![c] = r.conns]
     /\ peers' = [peers EXCEPT ![c] = r.peers]
     /\ tasks' = [tasks EXCEPT ![c] =
                    @ \cup {Task("video_offer", r.pc, p, <<>>)}]
     /\ out' = NoEmit
     /\ UNCHANGED <<mediaVars, aiVars>>

\* A variant of the continuation of handleOffer that sends the answer
\* without having applied the offer.
ResumeHandleOfferUnapplied(c, t) ==
  /\ t \in tasks[c]
  /\ t.kind = "video_offer"
  /\ tasks' = [tasks EXCEPT ![c] = @ \ {t}]
  /\ out' = Emit(c, <<Msg("video_answer", c, t.peer, <<>>)>>)
  /\ UNCHANGED <<conns, peers, mediaVars, aiVars>>

\* handleOffer after its awaits (video.ts 269-277): the offer is applied,
\* the answer created and applied, and video_answer emitted to the sender.
\* On a connection closed meanwhile the handler does not continue.
ResumeHandleOffer(c, t) ==
  /\ t \in tasks[c]
  /\ t.kind = "video_offer"
  /\ tasks' = [tasks EXCEPT ![c] = @ \ {t}]
  /\ IF conns[c][t.pc].closed
       THEN /\ out' = NoEmit
            /\ UNCHANGED conns
       ELSE /\ conns' = [conns EXCEPT ![c][t.pc].remote = "offer",
                                      ![c][t.pc].local = "answer"]
            /\ out' = Emit(c, <<Msg("video_answer", c, t.peer, <<>>)>>)
  /\ UNCHANGED <<peers, mediaVars, aiVars>>

\* The signaling state have-local-offer: open, a local offer applied and
\* no answer yet.
HaveLocalOffer(pc) == ~pc.closed /\ pc.local = "offer" /\ pc.remote = "none"

\* A variant of setRemoteDescription(answer) that applies the answer in
\* whatever state the connection is.
SetRemoteAnswerAlways(pc) ==
  [pc EXCEPT !.remote = "answer"]

\* RTCPeerConnection.setRemoteDescription(answer): applied in the state
\* have-local-offer; in any other state, or closed, the promise rejects and
\* the connection is unchanged.
SetRemoteAnswer(pc) ==
  IF HaveLocalOffer(pc) THEN [pc EXCEPT !.remote = "answer"] ELSE pc

\* peer?.connection (video.ts 283, 291): the registry has an entry for p
\* and the entry has a connection.
HasConnection(c, p) == p \in DOMAIN peers[c] /\ peers[c][p].conn # 0

\* socket.on('video_answer') -> handleAnswer (video.ts 188-190, 281-286).
\* A rejected setRemoteDescription is thrown out of the handler.
HandleVideoAnswer(c, p) ==
  /\ conns' = [conns EXCEPT ![c] =
        IF HasConnection(c, p)
          THEN [@ EXCEPT ![peers[c][p].conn] = SetRemoteAnswer(@)]
          ELSE @]
  /\ thrown' = IF /\ HasConnection(c, p)
                  /\ ~HaveLocalOffer(conns[c][peers[c][p].conn])
                 THEN "setRemoteDescription"
                 ELSE NoError
  /\ out' = NoEmit
  /\ UNCHANGED <<peers, tasks, mediaVars, aiVars>>


\* The connection is open and has a remote description.
HasRemoteDescription(pc) == ~pc.closed /\ pc.remote # "none"

\* RTCPeerConnection.addIceCandidate: needs a remote description; without
\* one, or on a closed connection, the promise rejects and the connection
\* is unchanged.
AddIceCandidate(pc) ==
  IF HasRemoteDescription(pc) THEN [pc EXCEPT !.ice = TRUE] ELSE pc

\* socket.on('video_ice_candidate') -> handleIceCandidate
\* (video.ts 192-194, 289-294).  A rejected addIceCandidate is thrown
\* out of the handler.
HandleIceCandidate(c, p) ==
  /\ conns' = [conns EXCEPT ![c] =
        IF HasConnection(c, p)
          THEN [@ EXCEPT ![peers[c][p].conn] = AddIceCandidate(@)]
          ELSE @]
  /\ thrown' = IF /\ HasConnection(c, p)
                  /\ ~HasRemoteDescription(conns[c][peers[c][p].conn])
                 THEN "addIceCandidate"
                 ELSE NoError
  /\ out' = NoEmit
  /\ UNCHANGED <<peers, tasks, mediaVars, aiVars>>

\* The stream a connection's inbound track belongs to.
RemoteStream(k) == 0 - k

\* pc.ontrack of connection k (video.ts 223-229): once a remote
\* description is applied the remote track arrives; the entry under the
\* connection's peer id, when there is one, gets the stream.
OnTrack(c, k) ==
  /\ k \in 1..Len(conns[c])
  /\ ~conns[c][k].closed
  /\ conns[c][k].remote # "none"
  /\ peers' = [peers EXCEPT ![c] =
                 IF conns[c][k].peer \in DOMAIN @
                   THEN [@ EXCEPT ![conns[c][k].peer].stream = RemoteStream(k)]
                   ELSE @]
  /\ out' = NoEmit
  /\ UNCHANGED <<conns, tasks, mediaVars, aiVars>>

\* pc.onicecandidate of connection k (video.ts 232-239): once a local
\* description is applied, candidates are gathered and each is sent to
\* the connection's peer.
OnIceCandidate(c, k) ==
  /\ k \in 1..Len(conns[c])
  /\ ~conns[c][k].closed
  /\ conns[c][k].local # "none"
  /\ out' = Emit(c, <<Msg("video_ice_candidate", c, conns[c][k].peer, <<>>)>>)
  /\ UNCHANGED <<peers, conns, tasks, mediaVars, aiVars>>

\* disconnectAI (video.ts 382-396): everything is under the test of
\* aiConnection.value; emits is what it emits.
DisconnectAIState(c, ps) ==
  IF aiConnection[c]
    THEN [aiConnection |-> FALSE, aiConnected |-> FALSE, isAIHost |-> FALSE,
          aiAudioStream |-> 0, peers |-> MapDelete(ps, AI),
          emits |-> Emit(c, <<Msg("ai_disconnected", c, "all", <<>>)>>)]
    ELSE [aiConnection |-> aiConnection[c], aiConnected |-> aiConnected[c],
          isAIHost |-> isAIHost[c], aiAudioStream |-> aiAudioStream[c],
          peers |-> ps, emits |-> <<>>]

\* Every connection the registry ps references, closed.
RECURSIVE CloseAll(_, _, _)
CloseAll(cs, ps, ids) ==
  IF ids = {} THEN cs
  ELSE LET p == CHOOSE q \in ids : TRUE
       IN CloseAll(CloseOf(cs, ps[p]), ps, ids \ {p})

\* disconnect (video.ts 475-496).  isScreenSharing is not written.
Disconnect(c) ==
  LET d == DisconnectAIState(c, EmptyMap)
  IN /\ conns' = [conns EXCEPT ![c] = CloseAll(@, peers[c], DOMAIN peers[c])]
     /\ peers' = [peers EXCEPT ![c] = d.peers]
     /\ localStream' = [localStream EXCEPT ![c] = NoStream]
     /\ screenStream' = [screenStream EXCEPT ![c] = 0]
     /\ liveScreens' = [liveScreens EXCEPT ![c] = @ \ {screenStream[c]}]
     /\ aiConnection' = [aiConnection EXCEPT ![c] = d.aiConnection]
     /\ aiConnected' = [aiConnected EXCEPT ![c] = d.aiConnected]
     /\ isAIHost' = [isAIHost EXCEPT ![c] = d.isAIHost]
     /\ aiAudioStream' = [aiAudioStream EXCEPT ![c] = d.aiAudioStream]
     /\ out' = d.emits \o Emit(c, <<Msg("video_leave", c, "all", <<>>)>>)
     /\ UNCHANGED <<tasks, isScreenSharing, screenCount, screenPending,
                    socket, audioMuted, videoMuted>>

\* initLocalMedia (video.ts 49-63) when getUserMedia rejects: the catch
\* block logs and rethrows.
InitLocalMediaFailed(c) ==
  /\ thrown' = "getUserMedia" /\ Ordinary
  /\ out' = NoEmit
  /\ UNCHANGED <<mediaVars, peers, conns, tasks, aiVars>>

\* initLocalMedia (video.ts 49-63) when getUserMedia succeeds: a stream
\* with a video track iff video was asked for, likewise audio; the
\* tracks start enabled.
InitLocalMediaOk(c, video, audio) ==
  localStream' = [localStream EXCEPT ![c] =
                    [has |-> TRUE, video |-> video, audio |-> audio,
                     videoEnabled |-> video, audioEnabled |-> audio]]

\* ---------------------------------------------------------- muting

\* The video_mute message (video.ts 125-129, 142-146).
VideoMuteMsg(c, am, vm) == Msg("video_mute", c, "all", <<am, vm>>)

\* The enabled flags of the local tracks and the store's muted flags.
MuteFlags(c) ==
  [audioEnabled |-> localStream[c].audioEnabled,
   videoEnabled |-> localStream[c].videoEnabled,
   audioMuted |-> audioMuted[c], videoMuted |-> videoMuted[c]]

\* The body of toggleAudio on those flags (video.ts 122-123).
ToggledAudio(f) ==
  [f EXCEPT !.audioEnabled = ~f.audioEnabled,
            !.audioMuted = ~(~f.audioEnabled)]

\* The body of toggleVideo on those flags (video.ts 139-140).
ToggledVideo(f) ==
  [f EXCEPT !.videoEnabled = ~f.videoEnabled,
            !.videoMuted = ~(~f.videoEnabled)]

\* toggleAudio (video.ts 118-132): nothing without a local stream or
\* without an audio track.
ToggleAudio(c) ==
  /\ IF localStream[c].has /\ localStream[c].audio
       THEN LET f == ToggledAudio(MuteFlags(c))
            IN /\ localStream' = [localStream EXCEPT
                                    ![c].audioEnabled = f.audioEnabled]
               /\ audioMuted' = [audioMuted EXCEPT ![c] = f.audioMuted]
               /\ out' = Emit(c, <<VideoMuteMsg(c, f.audioMuted,
                                                videoMuted[c])>>)
       ELSE /\ out' = NoEmit
            /\ UNCHANGED <<localStream, audioMuted>>
  /\ UNCHANGED <<videoMuted, screenStream, isScreenSharing, screenCount,
                 screenPending, liveScreens, socket, peers, conns, tasks,
                 aiVars>>

\* toggleVideo (video.ts 135-149).
ToggleVideo(c) ==
  /\ IF localStream[c].has /\ localStream[c].video
       THEN LET f == ToggledVideo(MuteFlags(c))
            IN /\ localStream' = [localStream EXCEPT
                                    ![c].videoEnabled = f.videoEnabled]
               /\ videoMuted' = [videoMuted EXCEPT ![c] = f.videoMuted]
               /\ out' = Emit(c, <<VideoMuteMsg(c, audioMuted[c],
                                                f.videoMuted)>>)
       ELSE /\ out' = NoEmit
            /\ UNCHANGED <<localStream, videoMuted>>
  /\ UNCHANGED <<audioMuted, screenStream, isScreenSharing, screenCount,
                 screenPending, liveScreens, socket, peers, conns, tasks,
                 aiVars>>

\* A variant of the video_mute_status handler that stores the flags under
\* the sender's id whether or not it has an entry.
HandleVideoMuteStatusStoring(c, p, am, vm) ==
  /\ peers' = [peers EXCEPT ![c] =
                 MapSet(@, p, IF p \in DOMAIN @
                                THEN [@[p] EXCEPT !.audioMuted = am,
                                                  !.videoMuted = vm]
                                ELSE Entry(0, 0, am, vm))]
  /\ thrown' = NoError
  /\ out' = NoEmit
  /\ UNCHANGED <<conns, tasks, mediaVars, aiVars>>

\* socket.on('video_mute_status') (video.ts 196-202): the flags of the
\* sender's entry are overwritten; nothing when there is no entry.
HandleVideoMuteStatus(c, p, am, vm) ==
  /\ peers' = [peers EXCEPT ![c] =
                 IF p \in DOMAIN @
                   THEN [@ EXCEPT ![p].audioMuted = am, ![p].videoMuted = vm]
                   ELSE @]
  /\ thrown' = NoError
  /\ out' = NoEmit
  /\ UNCHANGED <<conns, tasks, mediaVars, aiVars>>

\* ------------------------------------------------- media and AI audio

\* The ids of the connections the registry ps references, the AI entry
\* aside (it has none).
RegistryConns(ps) == {ps[p].conn : p \in DOMAIN ps} \ {0}

\* getSenders().find(s => s.track?.kind === 'video'): the index of the
\* first sender with a video track, 0 when there is none.
VideoSender(senders) ==
  IF \E i \in 1..Len(senders) : senders[i].kind = "video"
    THEN CHOOSE i \in 1..Len(senders) :
           /\ senders[i].kind = "video"
           /\ \A j \in 1..(i - 1) : senders[j].kind # "video"
    ELSE 0

\* A variant of the replacement that also renegotiates: the connection
\* gets a new local offer.
ReplaceVideoTrackRenegotiating(pc, track) ==
  IF ~pc.closed /\ VideoSender(pc.senders) # 0
    THEN [pc EXCEPT !.senders[VideoSender(pc.senders)] = track,
                    !.local = "offer"]
    ELSE pc

\* if (sender) sender.replaceTrack(track) (video.ts 78-79, 108-109); on a
\* closed connection replaceTrack rejects and changes nothing.
ReplaceVideoTrack(pc, track) ==
  IF ~pc.closed /\ VideoSender(pc.senders) # 0
    THEN [pc EXCEPT !.senders[VideoSender(pc.senders)] = track]
    ELSE pc

\* peers.forEach(peer => { if (peer.connection) { ... replaceTrack } })
\* (video.ts 76-81, 106-111): the replacement on every connection the
\* registry references.
ReplaceVideoTrackAll(cs, ps, track) ==
  [k \in 1..Len(cs) |->
     IF k \in RegistryConns(ps) THEN ReplaceVideoTrack(cs[k], track)
     ELSE cs[k]]

\* startScreenShare up to `await getDisplayMedia` (video.ts 66-68).
StartScreenShare(c) ==
  /\ screenCount[c] + screenPending[c] < MaxScreens
  /\ screenPending' = [screenPending EXCEPT ![c] = @ + 1]
  /\ out' = NoEmit
  /\ UNCHANGED <<localStream, audioMuted, videoMuted, screenStream, isScreenSharing, screenCount,
                 liveScreens, socket, peers, conns, tasks, aiVars>>

\* startScreenShare once getDisplayMedia has given a stream
\* (video.ts 68-88): the new stream is held, every registry connection's
\* video sender gets its track, screen_share_start is emitted.
ScreenShareAcquired(c) ==
  LET k == screenCount[c] + 1
  IN /\ screenPending[c] > 0
     /\ screenPending' = [screenPending EXCEPT ![c] = @ - 1]
     /\ screenCount' = [screenCount EXCEPT ![c] = k]
     /\ liveScreens' = [liveScreens EXCEPT ![c] = @ \cup {k}]
     /\ screenStream' = [screenStream EXCEPT ![c] = k]
     /\ isScreenSharing' = [isScreenSharing EXCEPT ![c] = TRUE]
     /\ conns' = [conns EXCEPT ![c] =
                      ReplaceVideoTrackAll(@, peers[c], ScreenTrack(k))]
     /\ out' = Emit(c, <<Msg("screen_share_start", c, "all", <<>>)>>)
     /\ UNCHANGED <<localStream, audioMuted, videoMuted, socket, peers, tasks, aiVars>>

\* A variant of the failing startScreenShare that has marked the store as
\* sharing before the acquisition failed.
ScreenShareFailedSharing(c) ==
  /\ screenPending[c] > 0
  /\ screenPending' = [screenPending EXCEPT ![c] = @ - 1]
  /\ thrown' = "getDisplayMedia" /\ Ordinary
  /\ out' = NoEmit
  /\ isScreenSharing' = [isScreenSharing EXCEPT ![c] = TRUE]
  /\ UNCHANGED <<localStream, audioMuted, videoMuted, screenStream, screenCount,
                 liveScreens, socket, peers, conns, tasks, aiVars>>

\* startScreenShare when getDisplayMedia fails (video.ts 89-92): the error
\* is rethrown, nothing is written.
ScreenShareFailed(c) ==
  /\ screenPending[c] > 0
  /\ screenPending' = [screenPending EXCEPT ![c] = @ - 1]
  /\ thrown' = "getDisplayMedia" /\ Ordinary
  /\ out' = NoEmit
  /\ UNCHANGED <<localStream, audioMuted, videoMuted, screenStream, isScreenSharing, screenCount,
                 liveScreens, socket, peers, conns, tasks, aiVars>>

\* stopScreenShare (video.ts 96-115), the tracks in live already ended.
StopScreenShareFrom(c, live) ==
  IF screenStream[c] = 0
       THEN /\ liveScreens' = [liveScreens EXCEPT ![c] = live]
            /\ out' = NoEmit
            /\ UNCHANGED <<screenStream, isScreenSharing, conns>>
       ELSE /\ liveScreens' = [liveScreens EXCEPT ![c] =
                                 live \ {screenStream[c]}]
            /\ screenStream' = [screenStream EXCEPT ![c] = 0]
            /\ isScreenSharing' = [isScreenSharing EXCEPT ![c] = FALSE]
            /\ conns' = [conns EXCEPT ![c] =
                 IF localStream[c].has /\ localStream[c].video
                   THEN ReplaceVideoTrackAll(@, peers[c], CamTrack)
                   ELSE @]
            /\ out' = Emit(c, <<Msg("screen_share_stop", c, "all", <<>>)>>)

StopScreenShare(c) ==
  /\ StopScreenShareFrom(c, liveScreens[c])
  /\ UNCHANGED <<localStream, audioMuted, videoMuted, screenCount, screenPending, socket, peers,
                 tasks, aiVars>>

\* A variant of the ended callback that only drops the stream and the
\* flag: the senders keep the ended track and nothing is emitted.
ScreenTrackEndedFlagOnly(c, k) ==
  /\ k \in liveScreens[c]
  /\ liveScreens' = [liveScreens EXCEPT ![c] = @ \ {k, screenStream[c]}]
  /\ screenStream' = [screenStream EXCEPT ![c] = 0]
  /\ isScreenSharing' = [isScreenSharing EXCEPT ![c] = FALSE]
  /\ out' = NoEmit
  /\ UNCHANGED <<localStream, audioMuted, videoMuted, screenCount, screenPending, socket, peers,
                 conns, tasks, aiVars>>

\* videoTrack.onended = () => stopScreenShare() (video.ts 84): the capture
\* of screen stream k ends outside the application.
ScreenTrackEnded(c, k) ==
  /\ k \in liveScreens[c]
  /\ StopScreenShareFrom(c, liveScreens[c] \ {k})
  /\ UNCHANGED <<localStream, audioMuted, videoMuted, screenCount, screenPending, socket, peers,
                 tasks, aiVars>>

\* senders.some(s => s.track?.id === audioTrack.id) (video.ts 441-442).
HasAITrack(senders, track) ==
  \E i \in 1..Len(senders) : senders[i] = track

\* peer.connection.addTrack(audioTrack, ...) inside try/catch
\* (video.ts 445-450): addTrack throws on a closed connection and for a
\* track that already has a sender; the catch swallows it.
AddTrack(pc, track) ==
  IF pc.closed \/ (\E i \in 1..Len(pc.senders) : pc.senders[i] = track)
    THEN pc
    ELSE [pc EXCEPT !.senders = Append(@, track)]

\* A variant of the per-connection step of broadcastAIAudio that never
\* attaches the track.
AddAITrackSkip(pc, track) ==
  pc

\* if (!hasAITrack) { addTrack } (video.ts 441-451).
AddAITrack(pc, track) ==
  IF HasAITrack(pc.senders, track) THEN pc ELSE AddTrack(pc, track)

\* broadcastAIAudio (video.ts 429-453) for the AI stream s (0: null) over
\* the connections cs and the registry ps.
BroadcastAIAudioOver(cs, ps, s) ==
  IF s = 0 THEN cs
  ELSE [k \in 1..Len(cs) |->
          IF k \in RegistryConns(MapDelete(ps, AI))
            THEN AddAITrack(cs[k], AITrack(s))
            ELSE cs[k]]

BroadcastAIAudio(c) ==
  /\ conns' = [conns EXCEPT ![c] =
                 BroadcastAIAudioOver(@, peers[c], aiAudioStream[c])]
  /\ out' = NoEmit
  /\ UNCHANGED <<mediaVars, peers, tasks, aiVars>>

\* setAIAudioStream (video.ts 402-424).
SetAIAudioStream(c, s) ==
  LET ps == MapSet(peers[c], AI, Entry(0, s, FALSE, TRUE))
  IN /\ aiAudioStream' = [aiAudioStream EXCEPT ![c] = s]
     /\ isAIHost' = [isAIHost EXCEPT ![c] = TRUE]
     /\ aiConnected' = [aiConnected EXCEPT ![c] = TRUE]
     /\ peers' = [peers EXCEPT ![c] = ps]
     /\ out' = Emit(c, <<Msg("ai_connected", c, "all", <<>>)>>)
     /\ conns' = [conns EXCEPT ![c] = BroadcastAIAudioOver(@, ps, s)]
     /\ UNCHANGED <<mediaVars, tasks, aiConnection>>

\* handleRemoteAIAudio (video.ts 458-472): ignored by the host; else the
\* stream is held and the AI entry stored.
HandleRemoteAIAudio(c, s) ==
  /\ IF isAIHost[c]
       THEN UNCHANGED <<aiAudioStream, aiConnected, peers>>
       ELSE /\ aiAudioStream' = [aiAudioStream EXCEPT ![c] = s]
            /\ aiConnected' = [aiConnected EXCEPT ![c] = TRUE]
            /\ peers' = [peers EXCEPT ![c] =
                           MapSet(@, AI, Entry(0, s, FALSE, TRUE))]
  /\ out' = NoEmit
  /\ UNCHANGED <<mediaVars, conns, tasks, isAIHost, aiConnection>>

\* disconnectAI (video.ts 382-396).
DisconnectAI(c) ==
  LET d == DisconnectAIState(c, peers[c])
  IN /\ aiConnection' = [aiConnection EXCEPT ![c] = d.aiConnection]
     /\ aiConnected' = [aiConnected EXCEPT ![c] = d.aiConnected]
     /\ isAIHost' = [isAIHost EXCEPT ![c] = d.isAIHost]
     /\ aiAudioStream' = [aiAudioStream EXCEPT ![c] = d.aiAudioStream]
     /\ peers' = [peers EXCEPT ![c] = d.peers]
     /\ out' = d.emits
     /\ UNCHANGED <<mediaVars, conns, tasks>>

\* connectVideo (video.ts 152-209): the socket is set, the handlers are
\* registered, video_join is emitted.
ConnectVideo(c) ==
  /\ socket' = [socket EXCEPT ![c] = TRUE]
  /\ out' = <<Msg("video_join", c, "all", <<>>)>>

\* ----------------------------------------------------- signaling relay

Range(s) == {s[i] : i \in 1..Len(s)}

\* The orders in which the relay may list the set S.
Orders(S) ==
  {s \in [1..Cardinality(S) -> S] : \A i, j \in 1..Cardinality(S) :
                                        s[i] = s[j] => i = j}

\* video_join: the newcomer is sent the peers snapshot, everyone already in
\* the room is told the newcomer joined.
RelayJoin(ib, c, order) ==
  [d \in Clients |->
     IF d = c THEN Append(ib[d], Msg("video_peers", "relay", d, order))
     ELSE IF d \in room
       THEN Append(ib[d], Msg("video_peer_joined", c, d, <<>>))
       ELSE ib[d]]

\* video_leave (or the socket closing): everyone left in the room is told;
\* nothing further is delivered to the one that left.
RelayLeave(ib, c) ==
  [d \in Clients |->
     IF d = c THEN <<>>
     ELSE IF d \in room
       THEN Append(ib[d], Msg("video_peer_left", c, d, <<>>))
       ELSE ib[d]]

Targeted == {"video_offer", "video_answer", "video_ice_candidate"}

\* offer / answer / ice_candidate are forwarded to their target, in the
\* order sent, while the target is in the room.
RECURSIVE Route(_, _)
Route(ib, msgs) ==
  IF msgs = <<>> THEN ib
  ELSE LET m == Head(msgs)
       IN Route(IF m.kind \in Targeted /\ m.target \in room
                  THEN [ib EXCEPT ![m.target] =
                          Append(@, Msg(m.kind, m.from, m.target, <<>>))]
                  ELSE ib,
                Tail(msgs))

\* ------------------------------------------------------------- Spec

InitStore ==
  /\ localStream = [c \in Clients |-> NoStream]
  /\ audioMuted = [c \in Clients |-> FALSE]
  /\ videoMuted = [c \in Clients |-> FALSE]
  /\ screenStream = [c \in Clients |-> 0]
  /\ isScreenSharing = [c \in Clients |-> FALSE]
  /\ screenCount = [c \in Clients |-> 0]
  /\ screenPending = [c \in Clients |-> 0]
  /\ liveScreens = [c \in Clients |-> {}]
  /\ socket = [c \in Clients |-> FALSE]
  /\ peers = [c \in Clients |-> EmptyMap]
  /\ conns = [c \in Clients |-> <<>>]
  /\ tasks = [c \in Clients |-> {}]
  /\ aiAudioStream = [c \in Clients |-> 0]
  /\ aiConnected = [c \in Clients |-> FALSE]
  /\ isAIHost = [c \in Clients |-> FALSE]
  /\ aiConnection = [c \in Clients |-> FALSE]
  /\ out = NoEmit
  /\ thrown = NoError
  /\ screenEnded = 0
  /\ unmatched = FALSE
  /\ connected = [c \in Clients |-> FALSE]
  /\ gone = [c \in Clients |-> {}]

InitRelay ==
  /\ inbox = [c \in Clients |-> <<>>]
  /\ room = {}
  /\ joinSeq = <<>>

NoTimerMsg ==
  [kind |-> "none", paused |-> FALSE, elapsed |-> 0, at |-> 0, phase |-> "",
   to |-> ""]

\* Nothing notified.
NoneRaised == [once |-> {}, again |-> {}]

InitTimer ==
  /\ workshopStartedAt = [c \in Clients |-> -1]
  /\ isWorkshopRunning = [c \in Clients |-> FALSE]
  /\ isPaused = [c \in Clients |-> FALSE]
  /\ syncedElapsedSeconds = [c \in Clients |-> 0]
  /\ elapsedSeconds = [c \in Clients |-> 0]
  /\ isRunning = [c \in Clients |-> FALSE]
  /\ timerInterval = [c \in Clients |-> FALSE]
  /\ intervals = [c \in Clients |-> 0]
  /\ now = 0
  /\ lastTimerMsg = NoTimerMsg
  /\ mounted = [c \in Clients |-> FALSE]
  /\ phase = [c \in Clients |-> "orientation"]
  /\ sessionStartedAt = [c \in Clients |-> -1]
  /\ warningsSent = [c \in Clients |-> {}]
  /\ raised = [c \in Clients |-> NoneRaised]
  /\ serverStartedAt = -1
  /\ serverPhase = "orientation"

\* The AI panel before its first connect.
NoPanel ==
  [peerConnection |-> "none", isConnected |-> FALSE, tracked |-> FALSE,
   told |-> FALSE, dialledTold |-> FALSE, error |-> ""]

InitPanel == aiPanel = [c \in Clients |-> NoPanel]

Init == InitStore /\ InitRelay /\ InitTimer /\ InitPanel

\* joinSession of the session view (StickerPalette.vue 573-595):
\* initLocalMedia(), then connectVideo, whose video_join the relay answers.
JoinSession(c) ==
  /\ c \notin Range(joinSeq)
  /\ InitLocalMediaOk(c, TRUE, TRUE)
  /\ ConnectVideo(c)
  /\ \E order \in Orders(room) : inbox' = RelayJoin(inbox, c, order)
  /\ room' = room \cup {c}
  /\ joinSeq' = Append(joinSeq, c)
  /\ UNCHANGED <<audioMuted, videoMuted, screenStream, isScreenSharing,
                 screenCount, screenPending,
                 liveScreens, peers, conns, tasks, aiVars, gone, timerVars,
                 aiPanel>>
  /\ thrown' = NoError /\ Ordinary

\* The session view is left (StickerPalette.vue 568-571): disconnect().
LeaveSession(c) ==
  /\ c \in room
  /\ Disconnect(c)
  /\ inbox' = RelayLeave(inbox, c)
  /\ room' = room \ {c}
  /\ UNCHANGED <<joinSeq, gone, timerVars, aiPanel>>
  /\ thrown' = NoError /\ Ordinary

\* The event at the head of c's inbox is handled; what the handler emits is
\* routed.
Heads(c, kind) == inbox[c] # <<>> /\ Head(inbox[c]).kind = kind
Handled(c) ==
  /\ inbox' = Route([inbox EXCEPT ![c] = Tail(@)], out')
  /\ UNCHANGED <<room, joinSeq, timerVars, aiPanel>>
  /\ Ordinary

RecvVideoPeers(c) ==
  /\ Heads(c, "video_peers")
  /\ HandleVideoPeers(c, Head(inbox[c]).list)
  /\ Handled(c)
  /\ thrown' = NoError
  /\ UNCHANGED gone

RecvVideoPeerJoined(c) ==
  /\ Heads(c, "video_peer_joined")
  /\ HandleVideoPeerJoined(c, Head(inbox[c]).from)
  /\ Handled(c)
  /\ thrown' = NoError
  /\ UNCHANGED gone

RecvVideoPeerLeft(c) ==
  /\ Heads(c, "video_peer_left")
  /\ HandleVideoPeerLeft(c, Head(inbox[c]).from)
  /\ Handled(c)
  /\ thrown' = NoError
  /\ gone' = [gone EXCEPT ![c] =
                IF Head(inbox[c]).from \in DOMAIN peers[c]
                  THEN @ \cup {Head(inbox[c]).from} ELSE @]

RecvVideoOffer(c) ==
  /\ Heads(c, "video_offer")
  /\ HandleVideoOffer(c, Head(inbox[c]).from)
  /\ Handled(c)
  /\ thrown' = NoError
  /\ UNCHANGED gone

RecvVideoAnswer(c) ==
  /\ Heads(c, "video_answer")
  /\ HandleVideoAnswer(c, Head(inbox[c]).from)
  /\ Handled(c)
  /\ UNCHANGED gone

\* A suspended handler of c continues; what it emits is routed.
StepCreateOffer(c) ==
  /\ \E t \in tasks[c] : ResumeCreateOffer(c, t)
  /\ inbox' = Route(inbox, out')
  /\ UNCHANGED <<room, joinSeq, gone, timerVars, aiPanel>>
  /\ thrown' = NoError /\ Ordinary

StepHandleOffer(c) ==
  /\ \E t \in tasks[c] : ResumeHandleOffer(c, t)
  /\ inbox' = Route(inbox, out')
  /\ UNCHANGED <<room, joinSeq, gone, timerVars, aiPanel>>
  /\ thrown' = NoError /\ Ordinary

Next ==
  \E c \in Clients :
    \/ JoinSession(c)
    \/ LeaveSession(c)
    \/ RecvVideoPeers(c)
    \/ RecvVideoPeerJoined(c)
    \/ RecvVideoPeerLeft(c)
    \/ RecvVideoOffer(c)
    \/ RecvVideoAnswer(c)
    \/ StepCreateOffer(c)
    \/ StepHandleOffer(c)

Spec == Init /\ [][Next]_vars


\* -------------------------------------------------------- SpecStore

\* The ids a signaling event may carry for Self.
Remotes == Clients \ {Self}

\* The peers snapshots Self may be sent.
Snapshots == UNION {Orders(S) : S \in SUBSET Remotes}

\* In SpecStore only the store of Self moves; the relay is not modelled,
\* the events come in any order.
StoreOnly ==
  /\ UNCHANGED <<relayVars, timerVars, aiPanel>>
  /\ thrown' = NoError /\ Ordinary

EnvInitLocalMedia ==
  /\ ~localStream[Self].has
  /\ \E video, audio \in BOOLEAN : InitLocalMediaOk(Self, video, audio)
  /\ out' = NoEmit
  /\ UNCHANGED <<audioMuted, videoMuted, screenStream, isScreenSharing,
                 screenCount, screenPending,
                 liveScreens, socket, peers, conns, tasks, aiVars, gone>>
  /\ StoreOnly

EnvConnectVideo ==
  /\ ~socket[Self]
  /\ ConnectVideo(Self)
  /\ UNCHANGED <<localStream, audioMuted, videoMuted, screenStream, isScreenSharing, screenCount,
                 screenPending, liveScreens, peers, conns, tasks, aiVars,
                 gone>>
  /\ StoreOnly

EnvVideoPeers ==
  /\ socket[Self]
  /\ \E list \in Snapshots : HandleVideoPeers(Self, list)
  /\ UNCHANGED gone
  /\ StoreOnly

EnvVideoPeerJoined ==
  /\ socket[Self]
  /\ \E p \in Remotes : HandleVideoPeerJoined(Self, p)
  /\ UNCHANGED gone
  /\ StoreOnly

EnvVideoPeerLeft ==
  /\ socket[Self]
  /\ \E p \in Remotes :
       /\ HandleVideoPeerLeft(Self, p)
       /\ gone' = [gone EXCEPT ![Self] =
                     IF p \in DOMAIN peers[Self] THEN @ \cup {p} ELSE @]
  /\ StoreOnly

EnvVideoOffer ==
  /\ socket[Self]
  /\ \E p \in Remotes : HandleVideoOffer(Self, p)
  /\ UNCHANGED gone
  /\ StoreOnly

EnvVideoAnswer ==
  /\ socket[Self]
  /\ \E p \in Remotes :
       /\ HandleVideoAnswer(Self, p)
       /\ unmatched' = ~HasConnection(Self, p)
  /\ screenEnded' = 0
  /\ UNCHANGED <<gone, relayVars, timerVars, aiPanel, connected>>

StoreCreateOffer ==
  /\ \E t \in tasks[Self] : ResumeCreateOffer(Self, t)
  /\ UNCHANGED gone
  /\ StoreOnly

StoreHandleOffer ==
  /\ \E t \in tasks[Self] : ResumeHandleOffer(Self, t)
  /\ UNCHANGED gone
  /\ StoreOnly

UserStartScreenShare ==
  StartScreenShare(Self) /\ UNCHANGED gone /\ StoreOnly

EnvScreenShareAcquired ==
  ScreenShareAcquired(Self) /\ UNCHANGED gone /\ StoreOnly

EnvScreenShareFailed ==
  /\ ScreenShareFailed(Self)
  /\ UNCHANGED <<gone, relayVars, timerVars, aiPanel>>

\* joinSession when the camera or microphone cannot be acquired
\* (StickerPalette.vue 573-595): nothing is connected.
EnvInitLocalMediaFailed ==
  /\ ~localStream[Self].has
  /\ InitLocalMediaFailed(Self)
  /\ UNCHANGED <<gone, relayVars, timerVars, aiPanel>>

UserStopScreenShare ==
  /\ screenStream[Self] # 0
  /\ StopScreenShare(Self)
  /\ UNCHANGED gone
  /\ StoreOnly

EnvScreenTrackEnded ==
  /\ \E k \in liveScreens[Self] :
       /\ ScreenTrackEnded(Self, k)
       /\ screenEnded' = k
  /\ unmatched' = FALSE
  /\ thrown' = NoError
  /\ UNCHANGED connected
  /\ UNCHANGED <<gone, relayVars, timerVars, aiPanel>>

EnvSetAIAudioStream ==
  /\ \E s \in AIStreams : SetAIAudioStream(Self, s)
  /\ UNCHANGED gone
  /\ StoreOnly

UserBroadcastAIAudio ==
  BroadcastAIAudio(Self) /\ UNCHANGED gone /\ StoreOnly

UserDisconnect ==
  /\ socket[Self]
  /\ Disconnect(Self)
  /\ UNCHANGED gone
  /\ StoreOnly

\* joinSession of the session view, for Self alone.
StoreJoinSession ==
  /\ ~socket[Self]
  /\ InitLocalMediaOk(Self, TRUE, TRUE)
  /\ ConnectVideo(Self)
  /\ UNCHANGED <<audioMuted, videoMuted, screenStream, isScreenSharing,
                 screenCount, screenPending,
                 liveScreens, peers, conns, tasks, aiVars, gone>>
  /\ StoreOnly

NextStore ==
  \/ StoreJoinSession
  \/ EnvVideoPeers
  \/ EnvVideoPeerJoined
  \/ EnvVideoPeerLeft
  \/ EnvVideoOffer
  \/ EnvVideoAnswer
  \/ StoreCreateOffer
  \/ StoreHandleOffer
  \/ UserDisconnect

SpecStore == Init /\ [][NextStore]_vars

\* SpecStore with the browser's scheduling: a handleOffer suspended at an
\* await is resumed.
SpecStoreLive == SpecStore /\ WF_vars(StoreHandleOffer)

\* -------------------------------------------------------- SpecMedia

\* video_peer_left handled, without the record SpecStore keeps of it.
MediaVideoPeerLeft ==
  /\ socket[Self]
  /\ \E p \in Remotes : HandleVideoPeerLeft(Self, p)
  /\ UNCHANGED gone
  /\ StoreOnly

NextMedia ==
  \/ EnvInitLocalMedia
  \/ EnvInitLocalMediaFailed
  \/ EnvConnectVideo
  \/ EnvVideoPeers
  \/ MediaVideoPeerLeft
  \/ EnvVideoOffer
  \/ StoreCreateOffer
  \/ StoreHandleOffer
  \/ UserStartScreenShare
  \/ EnvScreenShareAcquired
  \/ EnvScreenShareFailed
  \/ UserStopScreenShare
  \/ EnvScreenTrackEnded

SpecMedia == Init /\ [][NextMedia]_vars

\* ----------------------------------------------------------- SpecAI

NextAI ==
  \/ StoreJoinSession
  \/ EnvVideoPeers
  \/ MediaVideoPeerLeft
  \/ EnvVideoOffer
  \/ StoreCreateOffer
  \/ StoreHandleOffer
  \/ EnvSetAIAudioStream
  \/ UserBroadcastAIAudio

SpecAI == Init /\ [][NextAI]_vars

\* SpecAI with the browser's scheduling: a handler suspended at an await
\* is resumed.  Nothing in the code calls setAIAudioStream or
\* broadcastAIAudio again by itself, and the signaling events are the
\* other clients' doing.
SpecAILive ==
  SpecAI /\ WF_vars(StoreCreateOffer) /\ WF_vars(StoreHandleOffer)

\* ------------------------------------------------------------ timer

\* The HeaderTimer state of client c (HeaderTimer.vue 46-48), and how
\* many of the intervals it has set are still active.
Timer(c) ==
  [elapsedSeconds |-> elapsedSeconds[c], isRunning |-> isRunning[c],
   timerInterval |-> timerInterval[c], intervals |-> intervals[c]]

SetTimer(c, t) ==
  /\ elapsedSeconds' = [elapsedSeconds EXCEPT ![c] = t.elapsedSeconds]
  /\ isRunning' = [isRunning EXCEPT ![c] = t.isRunning]
  /\ timerInterval' = [timerInterval EXCEPT ![c] = t.timerInterval]
  /\ intervals' = [intervals EXCEPT ![c] = t.intervals]

\* A variant of startTimerLocal without the isRunning check: it sets a
\* new interval whatever handle it holds.
StartTimerLocalUnguarded(t) ==
  [t EXCEPT !.isRunning = TRUE, !.timerInterval = TRUE,
            !.intervals = @ + 1]

\* startTimerLocal (HeaderTimer.vue 135-145): nothing when isRunning;
\* else setInterval adds an interval and its handle is kept.
StartTimerLocal(t) ==
  IF t.isRunning THEN t
  ELSE [t EXCEPT !.isRunning = TRUE, !.timerInterval = TRUE,
                 !.intervals = @ + 1]

\* pauseTimerLocal (HeaderTimer.vue 147-153): clearInterval ends the
\* interval whose handle is held, if one is.
PauseTimerLocal(t) ==
  [t EXCEPT !.isRunning = FALSE, !.timerInterval = FALSE,
            !.intervals = IF t.timerInterval THEN @ - 1 ELSE @]

\* A variant of the workshopStartedAt watcher that starts the tick and
\* keeps the elapsed value it had.
WatchWorkshopStartedAtKeeping(t, startedAt, nowv) ==
  IF startedAt # -1 THEN StartTimerLocal(t) ELSE t

\* The callback of watch(() => sessionStore.workshopStartedAt)
\* (HeaderTimer.vue 195-202); nowv is Date.now() in seconds.
WatchWorkshopStartedAt(t, startedAt, nowv) ==
  IF startedAt # -1
    THEN StartTimerLocal([t EXCEPT !.elapsedSeconds = nowv - startedAt])
    ELSE t

\* A variant of the isPaused watcher that adopts the elapsed value of a
\* pause and leaves the local tick as it is.
WatchIsPausedKeepRunning(t, paused, synced, running) ==
  IF paused
    THEN [t EXCEPT !.elapsedSeconds = synced]
    ELSE IF running /\ ~t.isRunning THEN StartTimerLocal(t) ELSE t

\* The callback of watch(() => sessionStore.isPaused)
\* (HeaderTimer.vue 205-212).
WatchIsPaused(t, paused, synced, running) ==
  IF paused
    THEN PauseTimerLocal([t EXCEPT !.elapsedSeconds = synced])
    ELSE IF running /\ ~t.isRunning THEN StartTimerLocal(t) ELSE t

\* socket.on('timer_paused') (part_000 257-261), then the watchers: the
\* one on isPaused runs only when the handler changed isPaused.
HandleTimerPaused(c, paused, elapsed) ==
  /\ isPaused' = [isPaused EXCEPT ![c] = paused]
  /\ syncedElapsedSeconds' = [syncedElapsedSeconds EXCEPT ![c] = elapsed]
  /\ SetTimer(c, IF paused # isPaused[c]
                   THEN WatchIsPaused(Timer(c), paused, elapsed,
                                      isWorkshopRunning[c])
                   ELSE Timer(c))
  /\ UNCHANGED <<workshopStartedAt, isWorkshopRunning, phase,
                 sessionStartedAt, warningsSent, raised>>

\* A variant of the workshop_started handler that takes the time of
\* receipt as the start.
HandleWorkshopStartedAtReceipt(c, startedAt, ph) ==
  LET t1 == WatchWorkshopStartedAt(Timer(c), now, now)
      t2 == IF isPaused[c]
              THEN WatchIsPaused(t1, FALSE, syncedElapsedSeconds[c], TRUE)
              ELSE t1
  IN /\ workshopStartedAt' = [workshopStartedAt EXCEPT ![c] = now]
     /\ isWorkshopRunning' = [isWorkshopRunning EXCEPT ![c] = TRUE]
     /\ isPaused' = [isPaused EXCEPT ![c] = FALSE]
     /\ sessionStartedAt' = [sessionStartedAt EXCEPT ![c] = startedAt]
     /\ phase' = [phase EXCEPT ![c] = ph]
     /\ SetTimer(c, t2)
     /\ UNCHANGED <<syncedElapsedSeconds, warningsSent, raised>>

\* socket.on('workshop_started') (part_000 235-244), then the watchers in
\* the order they were created.  workshopStartedAt is a new Date object
\* each time, so its watcher always runs.
HandleWorkshopStarted(c, startedAt, ph) ==
  LET t1 == WatchWorkshopStartedAt(Timer(c), startedAt, now)
      t2 == IF isPaused[c]
              THEN WatchIsPaused(t1, FALSE, syncedElapsedSeconds[c], TRUE)
              ELSE t1
  IN /\ workshopStartedAt' = [workshopStartedAt EXCEPT ![c] = startedAt]
     /\ isWorkshopRunning' = [isWorkshopRunning EXCEPT ![c] = TRUE]
     /\ isPaused' = [isPaused EXCEPT ![c] = FALSE]
     /\ sessionStartedAt' = [sessionStartedAt EXCEPT ![c] = startedAt]
     /\ phase' = [phase EXCEPT ![c] = ph]
     /\ SetTimer(c, t2)
     /\ UNCHANGED <<syncedElapsedSeconds, warningsSent, raised>>

\* socket.on('timer_sync') (part_000 246-255); startedAt is -1 when the
\* event carries no started_at.
HandleTimerSync(c, startedAt, ph) ==
  /\ phase' = [phase EXCEPT ![c] = ph]
  /\ IF startedAt # -1
       THEN /\ workshopStartedAt' =
                 [workshopStartedAt EXCEPT ![c] = startedAt]
            /\ isWorkshopRunning' = [isWorkshopRunning EXCEPT ![c] = TRUE]
            /\ SetTimer(c, WatchWorkshopStartedAt(Timer(c), startedAt, now))
       ELSE UNCHANGED <<workshopStartedAt, isWorkshopRunning,
                        elapsedSeconds, isRunning, timerInterval, intervals>>
  /\ UNCHANGED <<isPaused, syncedElapsedSeconds, sessionStartedAt,
                 warningsSent, raised>>

\* socket.on('phase_changed') (part_000 217-221).
HandlePhaseChanged(c, ph) ==
  /\ phase' = [phase EXCEPT ![c] = ph]
  /\ UNCHANGED <<workshopStartedAt, isWorkshopRunning, isPaused,
                 syncedElapsedSeconds, elapsedSeconds, isRunning,
                 timerInterval, intervals, sessionStartedAt, warningsSent, raised>>

\* ------------------------------------------------- time thresholds

\* phaseOrder (HeaderTimer.vue 39-42).
PhaseOrder ==
  <<"orientation", "event_elicitation", "event_refinement",
    "command_policy", "timeline_ordering", "summary">>

Phases == Range(PhaseOrder)

\* phaseAllocation (HeaderTimer.vue 30-37), per cent.
PhaseAllocation ==
  [ph \in Phases |->
     CASE ph = "orientation" -> 10
       [] ph = "event_elicitation" -> 30
       [] ph = "event_refinement" -> 20
       [] ph = "command_policy" -> 20
       [] ph = "timeline_ordering" -> 10
       [] OTHER -> 10]

\* The default session length in minutes (HeaderTimer.vue 53).
DefaultMinutes == 60
\* Seconds in a minute (HeaderTimer.vue 53).
SecondsPerMinute == 60
\* The remaining-time values of the warnings (HeaderTimer.vue 161, 166,
\* 177).
FiveMinutes == 300
OneMinute == 60
TenMinutes == 600

\* totalSeconds (HeaderTimer.vue 52-54).
TotalSeconds == DefaultMinutes * SecondsPerMinute

\* phaseTimings (HeaderTimer.vue 76-86): endSeconds of the i-th phase.
RECURSIVE PhaseEndSeconds(_)
PhaseEndSeconds(i) ==
  IF i = 0 THEN 0
  ELSE PhaseEndSeconds(i - 1)
         + (TotalSeconds * PhaseAllocation[PhaseOrder[i]]) \div 100

PhaseIndex(ph) == CHOOSE i \in 1..Len(PhaseOrder) : PhaseOrder[i] = ph

Max0(x) == IF x < 0 THEN 0 ELSE x

\* remainingSeconds (HeaderTimer.vue 56-58).
RemainingSeconds(e) == Max0(TotalSeconds - e)

\* phaseRemainingSeconds (HeaderTimer.vue 89-93).
PhaseRemainingSeconds(ph, e) == Max0(PhaseEndSeconds(PhaseIndex(ph)) - e)

\* The keys of warningsSent.
PhaseKey(ph, what) == <<ph, what>>
Total10Key == <<"total", "10min">>
Total5Key == <<"total", "5min">>
WorkshopEndKey == <<"workshop", "end">>

\* The keys whose condition checkTimeEvents finds true for phase ph at
\* elapsed e (HeaderTimer.vue 160-187).
DueKeys(ph, e) ==
  {k \in {PhaseKey(ph, "5min")} : PhaseRemainingSeconds(ph, e) = FiveMinutes}
  \cup {k \in {PhaseKey(ph, "1min")} : PhaseRemainingSeconds(ph, e) = OneMinute}
  \cup {k \in {PhaseKey(ph, "end")} : PhaseRemainingSeconds(ph, e) = 0}
  \cup {k \in {Total10Key} : RemainingSeconds(e) = TenMinutes}
  \cup {k \in {Total5Key} : RemainingSeconds(e) = FiveMinutes}
  \cup {k \in {WorkshopEndKey} : RemainingSeconds(e) = 0}

\* checkTimeEvents (HeaderTimer.vue 155-192): the keys it notifies now are
\* the due ones not yet in warningsSent.
CheckTimeEvents(ph, e, ws) ==
  LET new == DueKeys(ph, e) \ ws
  IN [warningsSent |-> ws \cup new, emitted |-> new,
      ended |-> WorkshopEndKey \in new]

\* The notifications log with the keys in new added.
Raise(r, new) ==
  [once |-> r.once \cup new, again |-> r.again \cup (r.once \cap new)]

\* getNextPhase (StickerPalette.vue 546-550): "" when there is none.
GetNextPhase(ph) ==
  IF PhaseIndex(ph) < Len(PhaseOrder) THEN PhaseOrder[PhaseIndex(ph) + 1]
  ELSE ""

\* onPhaseTimeUp of the session view (StickerPalette.vue 533-540), the
\* session store connected: update_phase to the next phase, if any.
OnPhaseTimeUp(c, ph) ==
  IF GetNextPhase(ph) # ""
    THEN <<Msg("update_phase", c, "all", <<GetNextPhase(ph)>>)>>
    ELSE <<>>

\* The elapsed values at which a warning of the first phase or of the
\* whole session is due.
ThresholdPoints ==
  {PhaseEndSeconds(1) - FiveMinutes, PhaseEndSeconds(1) - OneMinute,
   PhaseEndSeconds(1), TotalSeconds - TenMinutes,
   TotalSeconds - FiveMinutes, TotalSeconds}

\* The elapsed values within MaxJump of such a point.
NearThreshold ==
  UNION {(p - MaxJump)..(p + MaxJump) : p \in ThresholdPoints}

\* The elapsed values the model follows.
ElapsedValues == (0..MaxElapsed) \cup NearThreshold

\* A variant of the interval callback that counts on while the store says
\* paused.
IntervalTickIgnoringPause(c) ==
  /\ intervals[c] > 0
  /\ elapsedSeconds[c] + 1 \in ElapsedValues
  /\ elapsedSeconds' = [elapsedSeconds EXCEPT ![c] = @ + 1]
  /\ out' = NoEmit
  /\ UNCHANGED <<workshopStartedAt, isWorkshopRunning, isPaused,
                 syncedElapsedSeconds, isRunning, timerInterval, intervals, phase,
                 sessionStartedAt, warningsSent, raised>>

\* The interval callback of startTimerLocal (HeaderTimer.vue 139-144):
\* unless the store says paused, elapsedSeconds++ and checkTimeEvents(),
\* whose phaseTimeUp the session view answers with update_phase and whose
\* workshop end calls pauseTimerLocal.
IntervalTick(c) ==
  /\ intervals[c] > 0
  /\ elapsedSeconds[c] + 1 \in ElapsedValues
  /\ IF isPaused[c]
       THEN /\ out' = NoEmit
            /\ UNCHANGED <<elapsedSeconds, isRunning, timerInterval, intervals,
                           warningsSent, raised>>
       ELSE LET e == elapsedSeconds[c] + 1
                r == CheckTimeEvents(phase[c], e, warningsSent[c])
                t == [Timer(c) EXCEPT !.elapsedSeconds = e]
            IN /\ SetTimer(c, IF r.ended THEN PauseTimerLocal(t) ELSE t)
               /\ warningsSent' = [warningsSent EXCEPT ![c] = r.warningsSent]
               /\ raised' = [raised EXCEPT ![c] = Raise(@, r.emitted)]
               /\ out' = IF PhaseKey(phase[c], "end") \in r.emitted
                           THEN OnPhaseTimeUp(c, phase[c])
                           ELSE NoEmit
  /\ UNCHANGED <<workshopStartedAt, isWorkshopRunning, isPaused,
                 syncedElapsedSeconds, phase, sessionStartedAt>>

\* What pauseTimer / startWorkshop / requestTimerSync of the session store
\* emit (part_000 363-388).
PauseTimerMsg(c, paused, elapsed) ==
  Msg("pause_timer", c, "all", <<IF paused THEN 1 ELSE 0, elapsed>>)
StartWorkshopMsg(c) ==
  Msg("start_workshop", c, "all", <<>>)
SyncTimerMsg(c) ==
  Msg("sync_timer", c, "all", <<>>)

\* A variant of toggleTimer that starts the workshop whenever the local
\* tick is not running, without looking at isWorkshopRunning.
ToggleTimerRestarting(c) ==
  /\ IF isRunning[c]
       THEN /\ SetTimer(c, PauseTimerLocal(Timer(c)))
            /\ out' = <<PauseTimerMsg(c, TRUE, elapsedSeconds[c])>>
       ELSE /\ SetTimer(c, StartTimerLocal(Timer(c)))
            /\ out' = <<StartWorkshopMsg(c)>>
  /\ UNCHANGED <<workshopStartedAt, isWorkshopRunning, isPaused,
                 syncedElapsedSeconds, phase, sessionStartedAt,
                 warningsSent, raised>>

\* toggleTimer (HeaderTimer.vue 118-133), the session store connected.
ToggleTimer(c) ==
  /\ IF isRunning[c]
       THEN /\ SetTimer(c, PauseTimerLocal(Timer(c)))
            /\ out' = <<PauseTimerMsg(c, TRUE, elapsedSeconds[c])>>
       ELSE /\ SetTimer(c, StartTimerLocal(Timer(c)))
            /\ out' = IF ~isWorkshopRunning[c]
                        THEN <<StartWorkshopMsg(c)>>
                        ELSE <<PauseTimerMsg(c, FALSE, elapsedSeconds[c])>>
  /\ UNCHANGED <<workshopStartedAt, isWorkshopRunning, isPaused,
                 syncedElapsedSeconds, phase, sessionStartedAt,
                 warningsSent, raised>>

\* A variant of the reset button that also stops the tick.
ResetTimerStopping(c) ==
  /\ SetTimer(c, PauseTimerLocal([Timer(c) EXCEPT !.elapsedSeconds = 0]))
  /\ warningsSent' = [warningsSent EXCEPT ![c] = {}]
  /\ raised' = [raised EXCEPT ![c] = NoneRaised]
  /\ UNCHANGED <<workshopStartedAt, isWorkshopRunning, isPaused,
                 syncedElapsedSeconds, phase, sessionStartedAt>>

\* The reset button (HeaderTimer.vue 290-292): elapsedSeconds = 0 and
\* warningsSent.clear().
ResetTimer(c) ==
  /\ elapsedSeconds' = [elapsedSeconds EXCEPT ![c] = 0]
  /\ warningsSent' = [warningsSent EXCEPT ![c] = {}]
  /\ raised' = [raised EXCEPT ![c] = NoneRaised]
  /\ UNCHANGED <<workshopStartedAt, isWorkshopRunning, isPaused,
                 syncedElapsedSeconds, isRunning, timerInterval, intervals, phase,
                 sessionStartedAt>>

\* loadSession (part_000 105-112): the session record, with the started_at
\* and the phase the backend holds for it.
LoadSession(c, startedAt, ph) ==
  /\ sessionStartedAt' = [sessionStartedAt EXCEPT ![c] = startedAt]
  /\ phase' = [phase EXCEPT ![c] = ph]
  /\ UNCHANGED <<workshopStartedAt, isWorkshopRunning, isPaused,
                 syncedElapsedSeconds, elapsedSeconds, isRunning,
                 timerInterval, intervals, warningsSent, raised>>

\* onMounted of HeaderTimer (HeaderTimer.vue 214-227), the session store
\* connected: the elapsed value from started_at if it is known, then
\* sync_timer.
OnMounted(c) ==
  LET started == IF sessionStartedAt[c] # -1 THEN sessionStartedAt[c]
                 ELSE workshopStartedAt[c]
  IN /\ ~mounted[c]
     /\ mounted' = [mounted EXCEPT ![c] = TRUE]
     /\ SetTimer(c, IF started # -1
                      THEN StartTimerLocal(
                             [Timer(c) EXCEPT !.elapsedSeconds = now - started])
                      ELSE Timer(c))
     /\ out' = <<SyncTimerMsg(c)>>
     /\ UNCHANGED <<workshopStartedAt, isWorkshopRunning, isPaused,
                    syncedElapsedSeconds, phase, sessionStartedAt,
                    warningsSent, raised>>

\* -------------------------------------------------------- SpecTimer

\* In SpecTimer only the timer of Self moves.
TimerOnly ==
  /\ UNCHANGED <<mediaVars, peers, conns, tasks, aiVars, relayVars, gone,
                 serverStartedAt, serverPhase, aiPanel>>
  /\ thrown' = NoError /\ Ordinary

TimerMsg(kind, paused, elapsed) ==
  [kind |-> kind, paused |-> paused, elapsed |-> elapsed, at |-> now,
   phase |-> "", to |-> Self]

EnvLoadSession ==
  \E startedAt \in -1..now, ph \in Phases :
    /\ ~mounted[Self]
    /\ LoadSession(Self, startedAt, ph)
    /\ lastTimerMsg' = NoTimerMsg
    /\ out' = NoEmit
    /\ UNCHANGED <<now, mounted>>
    /\ TimerOnly

TimerMounted ==
  /\ OnMounted(Self)
  /\ lastTimerMsg' = NoTimerMsg
  /\ UNCHANGED now
  /\ TimerOnly

EnvTimerPaused ==
  \E paused \in BOOLEAN, elapsed \in 0..MaxElapsed :
    /\ mounted[Self]
    /\ HandleTimerPaused(Self, paused, elapsed)
    /\ lastTimerMsg' = TimerMsg("timer_paused", paused, elapsed)
    /\ out' = NoEmit
    /\ UNCHANGED <<now, mounted>>
    /\ TimerOnly

EnvWorkshopStarted ==
  \E startedAt \in 0..now, ph \in Phases :
    /\ mounted[Self]
    /\ HandleWorkshopStarted(Self, startedAt, ph)
    /\ lastTimerMsg' = [TimerMsg("workshop_started", FALSE, now - startedAt)
                          EXCEPT !.phase = ph]
    /\ out' = NoEmit
    /\ UNCHANGED <<now, mounted>>
    /\ TimerOnly

EnvTimerSync ==
  \E startedAt \in -1..now, ph \in Phases :
    /\ mounted[Self]
    /\ HandleTimerSync(Self, startedAt, ph)
    /\ lastTimerMsg' =
         [(IF startedAt = -1 THEN TimerMsg("timer_sync_unstarted", FALSE, 0)
           ELSE TimerMsg("timer_sync", FALSE, now - startedAt))
            EXCEPT !.phase = ph]
    /\ out' = NoEmit
    /\ UNCHANGED <<now, mounted>>
    /\ TimerOnly

EnvPhaseChanged ==
  \E ph \in Phases :
    /\ mounted[Self]
    /\ HandlePhaseChanged(Self, ph)
    /\ lastTimerMsg' = NoTimerMsg
    /\ out' = NoEmit
    /\ UNCHANGED <<now, mounted>>
    /\ TimerOnly

TimerTick ==
  /\ IntervalTick(Self)
  /\ lastTimerMsg' = TimerMsg("tick", isPaused[Self], elapsedSeconds'[Self])
  /\ UNCHANGED <<now, mounted>>
  /\ TimerOnly

UserToggleTimer ==
  /\ mounted[Self]
  /\ ToggleTimer(Self)
  /\ lastTimerMsg' = NoTimerMsg
  /\ UNCHANGED <<now, mounted>>
  /\ TimerOnly

UserResetTimer ==
  /\ mounted[Self]
  /\ ResetTimer(Self)
  /\ lastTimerMsg' = NoTimerMsg
  /\ out' = NoEmit
  /\ UNCHANGED <<now, mounted>>
  /\ TimerOnly

\* A second of wall-clock time passes.
ClockAdvance ==
  /\ now < MaxElapsed
  /\ now' = now + 1
  /\ lastTimerMsg' = NoTimerMsg
  /\ out' = NoEmit
  /\ UNCHANGED <<workshopStartedAt, isWorkshopRunning, isPaused,
                 syncedElapsedSeconds, elapsedSeconds, isRunning,
                 timerInterval, intervals, mounted, phase, sessionStartedAt,
                 warningsSent, raised>>
  /\ TimerOnly

NextTimer ==
  \/ EnvLoadSession
  \/ TimerMounted
  \/ EnvTimerPaused
  \/ EnvWorkshopStarted
  \/ EnvTimerSync
  \/ EnvPhaseChanged
  \/ TimerTick
  \/ UserToggleTimer
  \/ UserResetTimer
  \/ ClockAdvance

SpecTimer == Init /\ [][NextTimer]_vars

\* --------------------------------------------------------- SpecRoom

\* The clients of SpecRoom: one that starts the workshop, one that joins.
RoomClients == {"A", "B"}

\* The phases the phase indicator is clicked on in SpecRoom.
GoToPhases == {PhaseOrder[1], PhaseOrder[2]}

\* goToPhase of the phase indicator (part_002 222-224) through updatePhase
\* of the session store (part_000 349-356).
GoToPhase(c, ph) ==
  /\ out' = <<Msg("update_phase", c, "all", <<ph>>)>>
  /\ UNCHANGED <<workshopStartedAt, isWorkshopRunning, isPaused,
                 syncedElapsedSeconds, elapsedSeconds, isRunning,
                 timerInterval, intervals, phase, sessionStartedAt, warningsSent,
                 raised>>

\* The timer events sent to every connected client.
Broadcast(ib, to, m) ==
  [c \in Clients |-> IF c \in to THEN Append(ib[c], m) ELSE ib[c]]

\* The backend's part in the timer protocol: start_workshop records the
\* start once and announces workshop_started{startedAt, phase};
\* sync_timer is answered to the sender with timer_sync{startedAt, phase};
\* pause_timer is announced as timer_paused{paused, elapsedSeconds};
\* update_phase is recorded and announced as phase_changed.
RelayTimer(ib, msgs, to) ==
  IF msgs = <<>>
    THEN [inbox |-> ib, startedAt |-> serverStartedAt, phase |-> serverPhase]
  ELSE LET m == Head(msgs)
       IN CASE m.kind = "start_workshop" ->
                 IF serverStartedAt = -1
                   THEN [inbox |-> Broadcast(ib, to,
                                     Msg("workshop_started", m.from, "all",
                                         <<now, serverPhase>>)),
                         startedAt |-> now, phase |-> serverPhase]
                   ELSE [inbox |-> ib, startedAt |-> serverStartedAt,
                         phase |-> serverPhase]
            [] m.kind = "sync_timer" ->
                 [inbox |-> Broadcast(ib, {m.from},
                                Msg("timer_sync", m.from, m.from,
                                    <<serverStartedAt, serverPhase>>)),
                  startedAt |-> serverStartedAt, phase |-> serverPhase]
            [] m.kind = "pause_timer" ->
                 [inbox |-> Broadcast(ib, to,
                                Msg("timer_paused", m.from, "all", m.list)),
                  startedAt |-> serverStartedAt, phase |-> serverPhase]
            [] OTHER ->
                 [inbox |-> Broadcast(ib, to,
                                Msg("phase_changed", m.from, "all", m.list)),
                  startedAt |-> serverStartedAt, phase |-> m.list[1]]

\* The relay takes what the step emitted; ib is the inboxes the step
\* left and to the clients connected after it.
Relayed(ib, to) ==
  LET r == RelayTimer(ib, out', to)
  IN /\ inbox' = r.inbox
     /\ serverStartedAt' = r.startedAt
     /\ serverPhase' = r.phase

Connected == {c \in Clients : mounted[c]}

\* Every inbox has room for one more event.
InboxRoom == \A c \in RoomClients : Len(inbox[c]) < MaxInbox

RoomOnly ==
  /\ UNCHANGED <<mediaVars, peers, conns, tasks, aiVars, room, joinSeq,
                 gone, aiPanel>>
  /\ thrown' = NoError /\ Ordinary

\* The session view loads the session from the backend.
RoomLoadSession(c) ==
  /\ ~mounted[c]
  /\ LoadSession(c, serverStartedAt, serverPhase)
  /\ lastTimerMsg' = NoTimerMsg
  /\ out' = NoEmit
  /\ UNCHANGED <<now, mounted, inbox, serverStartedAt, serverPhase>>
  /\ RoomOnly

\* The client joins: HeaderTimer mounts and asks for the timer state.
RoomMounted(c) ==
  /\ InboxRoom
  /\ OnMounted(c)
  /\ Relayed(inbox, Connected \cup {c})
  /\ lastTimerMsg' = NoTimerMsg
  /\ UNCHANGED now
  /\ RoomOnly

\* The client handles the next timer event sent to it.
RoomDeliver(c) ==
  /\ mounted[c]
  /\ inbox[c] # <<>>
  /\ LET m == Head(inbox[c])
     IN CASE m.kind = "workshop_started" ->
               /\ HandleWorkshopStarted(c, m.list[1], m.list[2])
               /\ lastTimerMsg' =
                    [kind |-> m.kind, paused |-> FALSE,
                     elapsed |-> now - m.list[1], at |-> now,
                     phase |-> m.list[2], to |-> c]
          [] m.kind = "timer_sync" ->
               /\ HandleTimerSync(c, m.list[1], m.list[2])
               /\ lastTimerMsg' =
                    [kind |-> IF m.list[1] = -1 THEN "timer_sync_unstarted"
                              ELSE "timer_sync",
                     paused |-> FALSE,
                     elapsed |-> IF m.list[1] = -1 THEN 0
                                 ELSE now - m.list[1],
                     at |-> now, phase |-> m.list[2], to |-> c]
          [] m.kind = "timer_paused" ->
               /\ HandleTimerPaused(c, m.list[1] = 1, m.list[2])
               /\ lastTimerMsg' =
                    [kind |-> m.kind, paused |-> m.list[1] = 1,
                     elapsed |-> m.list[2], at |-> now, phase |-> "",
                     to |-> c]
          [] OTHER ->
               /\ HandlePhaseChanged(c, m.list[1])
               /\ lastTimerMsg' = NoTimerMsg
  /\ inbox' = [inbox EXCEPT ![c] = Tail(@)]
  /\ out' = NoEmit
  /\ UNCHANGED <<now, mounted, serverStartedAt, serverPhase>>
  /\ RoomOnly

RoomToggleTimer(c) ==
  /\ mounted[c]
  /\ InboxRoom
  /\ ToggleTimer(c)
  /\ Relayed(inbox, Connected)
  /\ lastTimerMsg' = NoTimerMsg
  /\ UNCHANGED <<now, mounted>>
  /\ RoomOnly

RoomGoToPhase(c) ==
  \E ph \in GoToPhases :
    /\ mounted[c]
    /\ InboxRoom
    /\ GoToPhase(c, ph)
    /\ Relayed(inbox, Connected)
    /\ lastTimerMsg' = NoTimerMsg
    /\ UNCHANGED <<now, mounted>>
    /\ RoomOnly

RoomTick(c) ==
  /\ InboxRoom
  /\ IntervalTick(c)
  /\ Relayed(inbox, Connected)
  /\ lastTimerMsg' = NoTimerMsg
  /\ UNCHANGED <<now, mounted>>
  /\ RoomOnly

RoomClock ==
  /\ now < MaxElapsed
  /\ now' = now + 1
  /\ lastTimerMsg' = NoTimerMsg
  /\ out' = NoEmit
  /\ UNCHANGED <<workshopStartedAt, isWorkshopRunning, isPaused,
                 syncedElapsedSeconds, elapsedSeconds, isRunning,
                 timerInterval, intervals, mounted, phase, sessionStartedAt,
                 warningsSent, raised, inbox, serverStartedAt, serverPhase>>
  /\ RoomOnly

NextRoom ==
  \/ \E c \in RoomClients : RoomLoadSession(c)
  \/ \E c \in RoomClients : RoomMounted(c)
  \/ \E c \in RoomClients : RoomDeliver(c)
  \/ \E c \in RoomClients : RoomToggleTimer(c)
  \/ \E c \in RoomClients : RoomGoToPhase(c)
  \/ \E c \in RoomClients : RoomTick(c)
  \/ RoomClock

SpecRoom == Init /\ [][NextRoom]_vars

\* --------------------------------------------------------- SpecStart
\* Two clients that may both start the workshop before either has heard
\* of the other's start.

\* The backend on start_workshop for a session already started: it
\* either keeps the recorded start (again = FALSE) or records and
\* announces a new one.
RelayStart(ib, msgs, to, again) ==
  IF /\ msgs # <<>>
     /\ Head(msgs).kind = "start_workshop"
     /\ serverStartedAt # -1
     /\ again
    THEN [inbox |-> Broadcast(ib, to,
                      Msg("workshop_started", Head(msgs).from, "all",
                          <<now, serverPhase>>)),
          startedAt |-> now, phase |-> serverPhase]
    ELSE RelayTimer(ib, msgs, to)

\* Every inbox has room for one more event.
PendingRoom == \A c \in RoomClients : Len(inbox[c]) < MaxPending

StartToggleTimer(c) ==
  /\ mounted[c]
  /\ PendingRoom
  /\ ToggleTimer(c)
  /\ \E again \in BOOLEAN :
       LET r == RelayStart(inbox, out', Connected, again)
       IN /\ inbox' = r.inbox
          /\ serverStartedAt' = r.startedAt
          /\ serverPhase' = r.phase
  /\ lastTimerMsg' = NoTimerMsg
  /\ UNCHANGED <<now, mounted>>
  /\ RoomOnly

NextStart ==
  \/ \E c \in RoomClients : RoomMounted(c)
  \/ \E c \in RoomClients : RoomDeliver(c)
  \/ \E c \in RoomClients : StartToggleTimer(c)
  \/ RoomClock

SpecStart == Init /\ [][NextStart]_vars

\* --------------------------------------------------------- SpecPhase
\* Two clients whose timers tick while the session is in a phase whose
\* time is over, and a third participant who starts the workshop and
\* pauses and resumes it at the elapsed value its own timer shows.

\* The elapsed values at which the third participant pauses: late in the
\* session, the time of the first phases long over.
PauseValues == {TotalSeconds - TenMinutes - 1}

\* Every inbox has room for one more event.
QueueRoom == \A c \in RoomClients : Len(inbox[c]) < MaxQueued

\* The third participant starts the workshop.
PhaseRemoteStart ==
  /\ serverStartedAt = -1
  /\ Connected # {}
  /\ QueueRoom
  /\ UNCHANGED <<workshopStartedAt, isWorkshopRunning, isPaused,
                 syncedElapsedSeconds, elapsedSeconds, isRunning,
                 timerInterval, intervals, mounted, phase, sessionStartedAt,
                 warningsSent, raised, now>>
  /\ out' = NoEmit
  /\ LET r == RelayTimer(inbox, <<StartWorkshopMsg("C")>>, Connected)
     IN /\ inbox' = r.inbox
        /\ serverStartedAt' = r.startedAt
        /\ serverPhase' = r.phase
  /\ lastTimerMsg' = NoTimerMsg
  /\ RoomOnly

\* The third participant pauses or resumes at its own elapsed value.
PhaseRemotePause ==
  \E paused \in BOOLEAN, elapsed \in PauseValues :
    /\ serverStartedAt # -1
    /\ QueueRoom
    /\ UNCHANGED <<workshopStartedAt, isWorkshopRunning, isPaused,
                   syncedElapsedSeconds, elapsedSeconds, isRunning,
                   timerInterval, intervals, mounted, phase,
                   sessionStartedAt, warningsSent, raised, now>>
    /\ out' = NoEmit
    /\ LET r == RelayTimer(inbox, <<PauseTimerMsg("C", paused, elapsed)>>,
                           Connected)
       IN /\ inbox' = r.inbox
          /\ serverStartedAt' = r.startedAt
          /\ serverPhase' = r.phase
    /\ lastTimerMsg' = NoTimerMsg
    /\ RoomOnly

\* A tick of client c's interval; the backend takes the update_phase it
\* may emit.
PhaseTick(c) ==
  /\ QueueRoom
  /\ IntervalTick(c)
  /\ Relayed(inbox, Connected)
  /\ lastTimerMsg' = [TimerMsg("tick", isPaused[c], elapsedSeconds'[c])
                        EXCEPT !.to = c]
  /\ UNCHANGED <<now, mounted>>
  /\ RoomOnly

NextPhase ==
  \/ \E c \in RoomClients : RoomMounted(c)
  \/ \E c \in RoomClients : RoomDeliver(c)
  \/ \E c \in RoomClients : PhaseTick(c)
  \/ PhaseRemoteStart
  \/ PhaseRemotePause

SpecPhase == Init /\ [][NextPhase]_vars

\* --------------------------------------------------- SpecThresholds

\* In SpecThresholds the timer of Self runs near the warning thresholds:
\* the workshop is started, then paused and resumed in turn by other
\* clients; a pause carries any of the elapsed values the model follows,
\* a resume the value of the pause before it.  The wall clock stands
\* still.

ThresholdsPaused ==
  \E paused \in BOOLEAN, elapsed \in ElapsedValues :
    /\ mounted[Self]
    /\ isWorkshopRunning[Self]
    /\ paused # isPaused[Self]
    /\ ~paused => elapsed = syncedElapsedSeconds[Self]
    /\ HandleTimerPaused(Self, paused, elapsed)
    /\ lastTimerMsg' = TimerMsg("timer_paused", paused, elapsed)
    /\ out' = NoEmit
    /\ UNCHANGED <<now, mounted>>
    /\ TimerOnly

ThresholdsStarted ==
  /\ mounted[Self]
  /\ ~isWorkshopRunning[Self]
  /\ HandleWorkshopStarted(Self, now, phase[Self])
  /\ lastTimerMsg' = [TimerMsg("workshop_started", FALSE, 0)
                        EXCEPT !.phase = phase[Self]]
  /\ out' = NoEmit
  /\ UNCHANGED <<now, mounted>>
  /\ TimerOnly

\* phase_changed answering the update_phase this client sent at the end
\* of its phase.
ThresholdsPhaseChanged ==
  /\ mounted[Self]
  /\ PhaseKey(phase[Self], "end") \in warningsSent[Self]
  /\ GetNextPhase(phase[Self]) # ""
  /\ HandlePhaseChanged(Self, GetNextPhase(phase[Self]))
  /\ lastTimerMsg' = NoTimerMsg
  /\ out' = NoEmit
  /\ UNCHANGED <<now, mounted>>
  /\ TimerOnly

NextThresholds ==
  \/ TimerMounted
  \/ ThresholdsStarted
  \/ ThresholdsPaused
  \/ ThresholdsPhaseChanged
  \/ TimerTick
  \/ UserResetTimer

SpecThresholds == Init /\ [][NextThresholds]_vars

\* ------------------------------------------------------ SpecInterval
\* One client's timer near the warning thresholds and the end of the
\* workshop, with the toggle button and every remote timer event.  The
\* wall clock stands still.

\* workshop_started, at any time, for the phase the client is in.
IntervalStarted ==
  /\ mounted[Self]
  /\ HandleWorkshopStarted(Self, now, phase[Self])
  /\ lastTimerMsg' = [TimerMsg("workshop_started", FALSE, 0)
                        EXCEPT !.phase = phase[Self]]
  /\ out' = NoEmit
  /\ UNCHANGED <<now, mounted>>
  /\ TimerOnly

\* timer_sync, at any time, for the phase the client is in.
IntervalSync ==
  \E startedAt \in {-1, now} :
    /\ mounted[Self]
    /\ HandleTimerSync(Self, startedAt, phase[Self])
    /\ lastTimerMsg' =
         [(IF startedAt = -1 THEN TimerMsg("timer_sync_unstarted", FALSE, 0)
           ELSE TimerMsg("timer_sync", FALSE, 0))
            EXCEPT !.phase = phase[Self]]
    /\ out' = NoEmit
    /\ UNCHANGED <<now, mounted>>
    /\ TimerOnly

NextInterval ==
  \/ TimerMounted
  \/ IntervalStarted
  \/ IntervalSync
  \/ ThresholdsPaused
  \/ TimerTick
  \/ UserToggleTimer
  \/ UserResetTimer

SpecInterval == Init /\ [][NextInterval]_vars

\* -------------------------------------------------------- SpecAgent

\* The clients of SpecAgent: each has the AI panel.
AgentClients == {"A", "B"}

\* connectAI of the AI panel (AIFeedbackPanel.vue 39-167), from the click
\* to the open data channel: a new RTCPeerConnection of the panel's own,
\* negotiated with the agent.  The button is shown while isConnected is
\* false (815-819); nothing the stores hold is read.
ConnectAI(c) ==
  /\ ~aiPanel[c].isConnected
  /\ aiPanel' = [aiPanel EXCEPT ![c] =
                   [@ EXCEPT !.peerConnection = "open", !.isConnected = TRUE,
                             !.tracked = FALSE, !.error = "",
                             !.dialledTold = @ \/ aiPanel[c].told]]

\* The steps of connecting to the agent that answer with an HTTP status:
\* the token request to the backend and the SDP exchange with the voice
\* endpoint.
ConnectSteps == {"token", "sdp"}

\* connectAI of the AI panel when the token request or the SDP exchange
\* answers not-ok (AIFeedbackPanel.vue 56-58, 150-152): the throw is
\* caught at 161-163 and error.value set.  At the SDP exchange the panel's
\* connection has been created and stored (67-68) and stays, without a
\* remote description; the data channel never opens.
ConnectAIFailed(c, step) ==
  /\ ~aiPanel[c].isConnected
  /\ aiPanel' = [aiPanel EXCEPT ![c] =
                   IF step = "token"
                     THEN [@ EXCEPT !.error = step]
                     ELSE [@ EXCEPT !.error = step,
                                    !.peerConnection = "unanswered",
                                    !.tracked = FALSE]]

\* A variant of the failing connectAIRealtime that tears the peer
\* connections down before it rethrows.
ConnectAIRealtimeFailedClosing(c, step) ==
  /\ localStream[c].has
  /\ thrown' = "connectAIRealtime" /\ Ordinary
  /\ conns' = [conns EXCEPT ![c] = CloseAll(@, peers[c], DOMAIN peers[c])]
  /\ peers' = [peers EXCEPT ![c] = EmptyMap]
  /\ out' = NoEmit
  /\ UNCHANGED <<mediaVars, tasks, aiAudioStream, aiConnected, isAIHost,
                 aiConnection>>

\* connectAIRealtime of the video store when the token request or the
\* SDP exchange answers not-ok (video.ts 310-312, 362-364): the error is
\* logged and rethrown (375-378).  At the SDP exchange aiConnection has
\* been set (317-318) and stays.
ConnectAIRealtimeFailed(c, step) ==
  /\ localStream[c].has
  /\ thrown' = "connectAIRealtime" /\ Ordinary
  /\ aiConnection' = [aiConnection EXCEPT ![c] = @ \/ step = "sdp"]
  /\ out' = NoEmit
  /\ UNCHANGED <<mediaVars, peers, conns, tasks, aiAudioStream, aiConnected,
                 isAIHost>>

\* connectAIRealtime of the video store, every step succeeding
\* (video.ts 297-373).
ConnectAIRealtime(c) ==
  /\ localStream[c].has
  /\ aiConnection' = [aiConnection EXCEPT ![c] = TRUE]
  /\ aiConnected' = [aiConnected EXCEPT ![c] = TRUE]
  /\ out' = NoEmit
  /\ UNCHANGED <<mediaVars, peers, conns, tasks, aiAudioStream, isAIHost>>

\* pc.ontrack of the panel's connection (AIFeedbackPanel.vue 76-87): the
\* agent's audio stream is handed to the video store.
OnAgentTrack(c, s) ==
  /\ aiPanel[c].peerConnection = "open"
  /\ ~aiPanel[c].tracked
  /\ aiPanel' = [aiPanel EXCEPT ![c].tracked = TRUE]
  /\ SetAIAudioStream(c, s)

\* disconnectAI of the AI panel (AIFeedbackPanel.vue 357-371): the
\* panel's connection is closed and forgotten, then disconnectAI of the
\* video store.  The button is shown while isConnected (840).
PanelDisconnectAI(c) ==
  /\ aiPanel[c].isConnected
  /\ aiPanel' = [aiPanel EXCEPT ![c] =
                   [@ EXCEPT !.peerConnection = "closed",
                             !.isConnected = FALSE]]
  /\ DisconnectAI(c)

\* socket.on('ai_connected') and socket.on('ai_disconnected') of the
\* session store (part_000 224-232) write nothing; the model notes what
\* the client has been told.
HandleAIConnected(c) ==
  aiPanel' = [aiPanel EXCEPT ![c].told = TRUE]

HandleAIDisconnected(c) ==
  aiPanel' = [aiPanel EXCEPT ![c].told = FALSE]

\* The backend forwards ai_connected / ai_disconnected to the other
\* clients of the session.
RelayAgent(ib, msgs, from) ==
  [c \in Clients |->
     IF c \in AgentClients \ {from} /\ socket[c]
       THEN ib[c] \o SelectSeq(msgs, LAMBDA m :
                       m.kind \in {"ai_connected", "ai_disconnected"})
       ELSE ib[c]]

AgentOnly ==
  /\ UNCHANGED <<room, joinSeq, gone, timerVars>>
  /\ thrown' = NoError /\ Ordinary

AgentJoinSession(c) ==
  /\ ~socket[c]
  /\ InitLocalMediaOk(c, TRUE, TRUE)
  /\ ConnectVideo(c)
  /\ UNCHANGED <<audioMuted, videoMuted, screenStream, isScreenSharing,
                 screenCount, screenPending,
                 liveScreens, peers, conns, tasks, aiVars, inbox, aiPanel>>
  /\ AgentOnly

AgentConnectAI(c) ==
  /\ socket[c]
  /\ ConnectAI(c)
  /\ out' = NoEmit
  /\ UNCHANGED <<mediaVars, peers, conns, tasks, aiVars, inbox>>
  /\ AgentOnly

AgentOnTrack(c) ==
  /\ \A d \in AgentClients : Len(inbox[d]) < MaxInbox
  /\ \E s \in AIStreams : OnAgentTrack(c, s)
  /\ inbox' = RelayAgent(inbox, out', c)
  /\ AgentOnly

AgentDisconnectAI(c) ==
  /\ \A d \in AgentClients : Len(inbox[d]) < MaxInbox
  /\ PanelDisconnectAI(c)
  /\ inbox' = RelayAgent(inbox, out', c)
  /\ AgentOnly

AgentDeliver(c) ==
  /\ inbox[c] # <<>>
  /\ IF Head(inbox[c]).kind = "ai_connected"
       THEN HandleAIConnected(c)
       ELSE HandleAIDisconnected(c)
  /\ inbox' = [inbox EXCEPT ![c] = Tail(@)]
  /\ out' = NoEmit
  /\ UNCHANGED <<mediaVars, peers, conns, tasks, aiVars>>
  /\ AgentOnly

\* ---------------------------------------------------------- SpecMute
\* One client joining the session view, muting and unmuting, leaving the
\* view and joining again (the store outlives the view).

\* joinSession on a freshly mounted session view.
MuteJoinSession ==
  /\ ~localStream[Self].has
  /\ InitLocalMediaOk(Self, TRUE, TRUE)
  /\ ConnectVideo(Self)
  /\ UNCHANGED <<audioMuted, videoMuted, screenStream, isScreenSharing,
                 screenCount, screenPending, liveScreens, peers, conns,
                 tasks, aiVars, gone>>
  /\ StoreOnly

UserToggleAudio ==
  ToggleAudio(Self) /\ UNCHANGED gone /\ StoreOnly

UserToggleVideo ==
  ToggleVideo(Self) /\ UNCHANGED gone /\ StoreOnly

EnvVideoMuteStatus ==
  /\ socket[Self]
  /\ \E p \in Remotes, am, vm \in BOOLEAN :
       /\ HandleVideoMuteStatus(Self, p, am, vm)
       /\ unmatched' = (p \notin DOMAIN peers[Self])
  /\ screenEnded' = 0
  /\ UNCHANGED <<gone, relayVars, timerVars, aiPanel, connected>>

NextMute ==
  \/ MuteJoinSession
  \/ UserToggleAudio
  \/ UserToggleVideo
  \/ EnvVideoPeerJoined
  \/ EnvVideoMuteStatus
  \/ UserDisconnect

SpecMute == Init /\ [][NextMute]_vars

\* -------------------------------------------------------- SpecScreen
\* One client sharing its screen from the session view's button, leaving
\* the view and joining again.

\* The screen share button (StickerPalette.vue 269-275): stopScreenShare
\* when the store says it is sharing, else startScreenShare.
ScreenShareButton(c) ==
  IF isScreenSharing[c] THEN StopScreenShare(c) ELSE StartScreenShare(c)

UserScreenShareButton ==
  /\ localStream[Self].has
  /\ ScreenShareButton(Self)
  /\ UNCHANGED gone
  /\ StoreOnly

\* onUnmounted of the session view, as far as the video store goes
\* (StickerPalette.vue 568-571).
ScreenViewUnmounted ==
  /\ localStream[Self].has
  /\ Disconnect(Self)
  /\ UNCHANGED gone
  /\ StoreOnly

NextScreen ==
  \/ MuteJoinSession
  \/ EnvVideoPeers
  \/ StoreCreateOffer
  \/ UserScreenShareButton
  \/ EnvScreenShareAcquired
  \/ EnvScreenShareFailed
  \/ EnvScreenTrackEnded
  \/ ScreenViewUnmounted

SpecScreen == Init /\ [][NextScreen]_vars

\* ---------------------------------------------------------- SpecHost
\* One video store, its peers, and the agent's audio: set by the AI
\* panel, adopted from another host, torn down, and the store left and
\* joined again.

EnvRemoteAIAudio ==
  /\ socket[Self]
  /\ \E s \in AIStreams : HandleRemoteAIAudio(Self, s)
  /\ UNCHANGED gone
  /\ StoreOnly

UserDisconnectAI ==
  /\ socket[Self]
  /\ DisconnectAI(Self)
  /\ UNCHANGED gone
  /\ StoreOnly

HostSetAIAudioStream ==
  /\ localStream[Self].has
  /\ EnvSetAIAudioStream

NextHost ==
  \/ MuteJoinSession
  \/ EnvVideoPeers
  \/ StoreCreateOffer
  \/ HostSetAIAudioStream
  \/ EnvRemoteAIAudio
  \/ UserDisconnectAI
  \/ ScreenViewUnmounted

SpecHost == Init /\ [][NextHost]_vars

\* --------------------------------------------------- SpecNegotiation
\* One video store, every signaling event in any order, and the callbacks
\* of its connections.

EnvIceCandidate ==
  /\ socket[Self]
  /\ \E p \in Remotes :
       /\ HandleIceCandidate(Self, p)
       /\ unmatched' = ~HasConnection(Self, p)
  /\ screenEnded' = 0
  /\ UNCHANGED <<gone, relayVars, timerVars, aiPanel, connected>>

ConnOnTrack ==
  /\ \E k \in 1..Len(conns[Self]) : OnTrack(Self, k)
  /\ UNCHANGED gone
  /\ StoreOnly

ConnOnIceCandidate ==
  /\ \E k \in 1..Len(conns[Self]) : OnIceCandidate(Self, k)
  /\ UNCHANGED gone
  /\ StoreOnly

NextNegotiation ==
  \/ StoreJoinSession
  \/ EnvVideoPeers
  \/ EnvVideoPeerJoined
  \/ MediaVideoPeerLeft
  \/ EnvVideoOffer
  \/ EnvVideoAnswer
  \/ EnvIceCandidate
  \/ EnvVideoMuteStatus
  \/ StoreCreateOffer
  \/ StoreHandleOffer
  \/ ConnOnTrack
  \/ ConnOnIceCandidate

SpecNegotiation == Init /\ [][NextNegotiation]_vars

\* ----------------------------------------------------- SpecTransport
\* One client, its peer connections, and the transport going up and down
\* under it.

\* socket.on('connect') of the session store (part_000 124-130).
HandleConnect(c) ==
  /\ connected' = [connected EXCEPT ![c] = TRUE]
  /\ out' = <<Msg("join_session", c, "all", <<>>)>>

\* The transport disconnects.  socket.on('disconnect') of the session
\* store (part_000 132-134) clears connected; connectVideo registers no
\* handler for the event (video.ts 152-209), so the video store is not
\* touched.
HandleDisconnect(c) ==
  /\ connected' = [connected EXCEPT ![c] = FALSE]
  /\ out' = NoEmit
  /\ UNCHANGED <<mediaVars, peers, conns, tasks, aiVars>>

\* disconnectSocket of the session store (part_000 264-270).
DisconnectSocket(c) ==
  connected' = [connected EXCEPT ![c] = FALSE]

TransportConnect ==
  /\ socket[Self]
  /\ localStream[Self].has
  /\ ~connected[Self]
  /\ HandleConnect(Self)
  /\ screenEnded' = 0
  /\ unmatched' = FALSE
  /\ thrown' = NoError
  /\ UNCHANGED <<mediaVars, peers, conns, tasks, aiVars, relayVars, gone,
                 timerVars, aiPanel>>

TransportDisconnect ==
  /\ connected[Self]
  /\ HandleDisconnect(Self)
  /\ screenEnded' = 0
  /\ unmatched' = FALSE
  /\ thrown' = NoError
  /\ UNCHANGED <<relayVars, gone, timerVars, aiPanel>>

\* The session view is left (StickerPalette.vue 568-571):
\* disconnectSocket(), then disconnect() of the video store.
ViewUnmounted ==
  /\ socket[Self]
  /\ localStream[Self].has
  /\ DisconnectSocket(Self)
  /\ Disconnect(Self)
  /\ screenEnded' = 0
  /\ unmatched' = FALSE
  /\ thrown' = NoError
  /\ UNCHANGED <<relayVars, gone, timerVars, aiPanel>>

NextTransport ==
  \/ MuteJoinSession
  \/ TransportConnect
  \/ TransportDisconnect
  \/ EnvVideoPeers
  \/ EnvVideoOffer
  \/ StoreCreateOffer
  \/ StoreHandleOffer
  \/ ViewUnmounted

SpecTransport == Init /\ [][NextTransport]_vars

\* ---------------------------------------------------------- SpecDial
\* One client, its peer connections, and its attempts to reach the agent
\* from the AI panel and from the video store.

DialConnectAI ==
  /\ socket[Self]
  /\ ConnectAI(Self)
  /\ out' = NoEmit
  /\ UNCHANGED <<mediaVars, peers, conns, tasks, aiVars, relayVars, gone,
                 timerVars>>
  /\ thrown' = NoError /\ Ordinary

DialConnectAIFailed ==
  /\ socket[Self]
  /\ \E step \in ConnectSteps : ConnectAIFailed(Self, step)
  /\ out' = NoEmit
  /\ UNCHANGED <<mediaVars, peers, conns, tasks, aiVars, relayVars, gone,
                 timerVars>>
  /\ thrown' = NoError /\ Ordinary

DialConnectAIRealtime ==
  /\ ConnectAIRealtime(Self)
  /\ UNCHANGED gone
  /\ StoreOnly

DialConnectAIRealtimeFailed ==
  /\ \E step \in ConnectSteps : ConnectAIRealtimeFailed(Self, step)
  /\ UNCHANGED <<gone, relayVars, timerVars, aiPanel>>

NextDial ==
  \/ StoreJoinSession
  \/ EnvVideoPeers
  \/ MediaVideoPeerLeft
  \/ EnvVideoOffer
  \/ StoreCreateOffer
  \/ StoreHandleOffer
  \/ DialConnectAI
  \/ DialConnectAIFailed
  \/ DialConnectAIRealtime
  \/ DialConnectAIRealtimeFailed

SpecDial == Init /\ [][NextDial]_vars

NextAgent ==
  \/ \E c \in AgentClients : AgentJoinSession(c)
  \/ \E c \in AgentClients : AgentConnectAI(c)
  \/ \E c \in AgentClients : AgentOnTrack(c)
  \/ \E c \in AgentClients : AgentDisconnectAI(c)
  \/ \E c \in AgentClients : AgentDeliver(c)

SpecAgent == Init /\ [][NextAgent]_vars

\* ------------------------------------------------- negotiation claims

\* a has sent an offer to b: one of a's connections for b has a local
\* offer (it is applied in the step that emits video_offer).
Offered(a, b) ==
  \E k \in 1..Len(conns[a]) : conns[a][k].peer = b /\ conns[a][k].local = "offer"

\* a has answered an offer of b.
Answered(a, b) ==
  \E k \in 1..Len(conns[a]) : conns[a][k].peer = b /\ conns[a][k].remote = "offer"

\* a joined the room before b did.
Before(a, b) ==
  \E i, j \in 1..Len(joinSeq) : i < j /\ joinSeq[i] = a /\ joinSeq[j] = b

\* a's registry entry for b holds an open connection on which both
\* descriptions are applied.
Established(a, b) ==
  /\ b \in DOMAIN peers[a]
  /\ peers[a][b].conn # 0
  /\ LET pc == conns[a][peers[a][b].conn]
     IN ~pc.closed /\ pc.local # "none" /\ pc.remote # "none"

Quiescent ==
  \A c \in Clients : inbox[c] = <<>> /\ tasks[c] = {}

\* C1: for every pair of clients, at most one of the two sends an offer to
\* the other, and a client answers only a peer that offered and to which it
\* did not offer itself.
C1_NoDoubleOffer ==
  \A a, b \in Clients :
    /\ ~(Offered(a, b) /\ Offered(b, a))
    /\ Answered(a, b) => Offered(b, a)

\* C1 witness: an offer was sent, answered, and the answer applied.
C1_Witness ==
  \E a, b \in Clients :
    /\ Offered(a, b) /\ Answered(b, a)
    /\ \E k \in 1..Len(conns[a]) :
         conns[a][k].peer = b /\ conns[a][k].remote = "answer"

C3_BothConnected ==
  Quiescent =>
    \A a, b \in room : a # b => Established(a, b) /\ Established(b, a)

\* ------------------------------------------------------ media claims

\* The senders of pc that carry track.
Carrying(pc, track) ==
  {i \in 1..Len(pc.senders) : pc.senders[i] = track}

\* The senders of pc that carry some screen track.
CarryingScreen(pc) ==
  {i \in 1..Len(pc.senders) : pc.senders[i].src = "screen"}

\* The connections Self's registry holds for its peers.
PeerConns == RegistryConns(MapDelete(peers[Self], AI))

ScreenShareStartMsg == Msg("screen_share_start", Self, "all", <<>>)
ScreenShareStopMsg == Msg("screen_share_stop", Self, "all", <<>>)

\* C4 as stated: right after startScreenShare has replaced the track, each
\* of the N connections of the registry has exactly one sender carrying the
\* new screen track and none carrying the camera track; right after
\* stopScreenShare (the local stream having a camera track) each has
\* exactly one sender carrying the camera track and none a screen track.
C4_AllSendersCarryNew ==
  /\ out = <<ScreenShareStartMsg>> =>
       \A k \in PeerConns :
         /\ Cardinality(Carrying(conns[Self][k],
                                 ScreenTrack(screenStream[Self]))) = 1
         /\ Carrying(conns[Self][k], CamTrack) = {}
  /\ (out = <<ScreenShareStopMsg>> /\ localStream[Self].video) =>
       \A k \in PeerConns :
         /\ Cardinality(Carrying(conns[Self][k], CamTrack)) = 1
         /\ CarryingScreen(conns[Self][k]) = {}

\* The track of the video source that is active.
ActiveVideoTrack ==
  IF isScreenSharing[Self] THEN ScreenTrack(screenStream[Self]) ELSE CamTrack

\* C5 as stated, granting it the connections that have no video sender at
\* all: the screen is the active source exactly while a screen stream is
\* held, and the video sender of every connection of the registry carries
\* the active source's track.
C5_ActiveSourceMirrored ==
  /\ isScreenSharing[Self] <=> screenStream[Self] # 0
  /\ \A k \in PeerConns :
       LET pc == conns[Self][k]
       IN VideoSender(pc.senders) # 0 =>
            pc.senders[VideoSender(pc.senders)] = ActiveVideoTrack

\* The agent's current audio track is attached exactly once to every
\* connection of the registry, and the AI entry has no connection.
AIFanOutDone ==
  aiAudioStream[Self] # 0 =>
    /\ \A k \in PeerConns :
         Cardinality(Carrying(conns[Self][k],
                              AITrack(aiAudioStream[Self]))) = 1
    /\ AI \in DOMAIN peers[Self] => peers[Self][AI].conn = 0

\* C6: every call of broadcastAIAudio, direct or through setAIAudioStream,
\* leaves each connection of the registry with exactly one sender carrying
\* the agent's track and the AI entry without a connection; a call made
\* when that already holds for the same track changes no connection.
C6_BroadcastIdempotent ==
  [][/\ (BroadcastAIAudio(Self)
           \/ \E s \in AIStreams : SetAIAudioStream(Self, s))
        => AIFanOutDone'
     /\ (AIFanOutDone
           /\ (BroadcastAIAudio(Self)
                 \/ SetAIAudioStream(Self, aiAudioStream[Self])))
        => conns' = conns]_vars

\* C6 witness: setAIAudioStream has run for two streams in turn; both
\* connections of the registry carry the current agent track once (and the
\* earlier one too), and the AI entry is present.
C6_Witness ==
  /\ aiAudioStream[Self] = 2
  /\ AI \in DOMAIN peers[Self]
  /\ Cardinality(PeerConns) = 2
  /\ \A k \in PeerConns :
       /\ Cardinality(Carrying(conns[Self][k], AITrack(2))) = 1
       /\ Cardinality(Carrying(conns[Self][k], AITrack(1))) = 1

\* ------------------------------------------------------ timer claims

\* C7 as stated: right after timer_paused{paused = true, E} is handled,
\* elapsedSeconds is E and the tick is stopped.
C7_PauseAdoptsElapsed ==
  (lastTimerMsg.kind = "timer_paused" /\ lastTimerMsg.paused) =>
    /\ elapsedSeconds[Self] = lastTimerMsg.elapsed
    /\ ~isRunning[Self]
    /\ ~timerInterval[Self]

\* C8 as stated: right after timer_paused{paused = false, E} is handled,
\* elapsedSeconds is E and, the workshop running, the tick runs from it.
C8_ResumeAdoptsElapsed ==
  (lastTimerMsg.kind = "timer_paused" /\ ~lastTimerMsg.paused) =>
    /\ elapsedSeconds[Self] = lastTimerMsg.elapsed
    /\ isWorkshopRunning[Self] => isRunning[Self] /\ timerInterval[Self]

\* ------------------------------------------------------ leave claims

\* C9: a step that handles video_peer_left{p} leaves no entry for p and
\* the connection p's entry held, if any, closed; a step that runs
\* disconnect leaves no peer entry and every connection the registry held
\* closed.  The step may come in any negotiation state.
C9_LeftClosesAndRemoves ==
  [][/\ \A p \in Remotes :
          HandleVideoPeerLeft(Self, p) =>
            /\ p \notin DOMAIN peers'[Self]
            /\ (p \in DOMAIN peers[Self] /\ peers[Self][p].conn # 0) =>
                 conns'[Self][peers[Self][p].conn].closed
     /\ Disconnect(Self) =>
          \A p \in DOMAIN peers[Self] :
            /\ p \notin DOMAIN peers'[Self]
            /\ peers[Self][p].conn # 0 =>
                 conns'[Self][peers[Self][p].conn].closed]_vars

\* C9 witness: p left while Self's offer to it was out (the connection had
\* a local offer and no answer): the connection is closed and p has no
\* entry.
C9_Witness ==
  \E p \in gone[Self] :
    /\ p \notin DOMAIN peers[Self]
    /\ \E k \in 1..Len(conns[Self]) :
         /\ conns[Self][k].peer = p
         /\ conns[Self][k].closed
         /\ conns[Self][k].local = "offer"
         /\ conns[Self][k].remote = "none"

\* C10 as stated, for the offers: once video_peer_left{p} has been handled
\* the registry holds no connection on which an offer of p was applied,
\* and no video_answer is emitted to p.
C10_NoMessageAfterLeft ==
  \A p \in gone[Self] :
    /\ ~(/\ p \in DOMAIN peers[Self]
         /\ peers[Self][p].conn # 0
         /\ conns[Self][peers[Self][p].conn].remote = "offer")
    /\ out # <<Msg("video_answer", Self, p, <<>>)>>

\* ----------------------------------------------- screen share frame

\* A step of startScreenShare or stopScreenShare of Self.
ScreenShareStep ==
  \/ StartScreenShare(Self)
  \/ ScreenShareAcquired(Self)
  \/ ScreenShareFailed(Self)
  \/ StopScreenShare(Self)
  \/ \E k \in liveScreens[Self] : ScreenTrackEnded(Self, k)

\* C11: a step of startScreenShare or stopScreenShare emits nothing but
\* screen_share_start / screen_share_stop, starts no negotiation handler
\* and leaves the descriptions of every connection as they were.
C11_ScreenShareNoNegotiation ==
  [][ScreenShareStep =>
       /\ out' \in {NoEmit, <<ScreenShareStartMsg>>, <<ScreenShareStopMsg>>}
       /\ tasks' = tasks
       /\ Len(conns'[Self]) = Len(conns[Self])
       /\ \A k \in 1..Len(conns[Self]) :
            /\ conns'[Self][k].local = conns[Self][k].local
            /\ conns'[Self][k].remote = conns[Self][k].remote]_vars

\* C11 witness: screen share has just started while two peers are
\* connected (their offers answered); both connections carry the screen
\* track.
C11_Witness ==
  /\ out = <<ScreenShareStartMsg>>
  /\ Cardinality(PeerConns) = 2
  /\ \A k \in PeerConns :
       /\ conns[Self][k].remote = "offer"
       /\ conns[Self][k].local = "answer"
       /\ Carrying(conns[Self][k], ScreenTrack(screenStream[Self])) # {}

\* ----------------------------------------------- timer state claims

\* C12: right after a mounted client whose store is not paused has
\* processed timer_sync{started_at = T0, phase = P}, its elapsedSeconds is
\* the whole seconds from T0 to now, its local tick runs, and its phase
\* is P.
C12_SyncAdoptsRunningTimer ==
  (lastTimerMsg.kind = "timer_sync" /\ ~isPaused[Self]) =>
     /\ workshopStartedAt[Self] = now - lastTimerMsg.elapsed
     /\ elapsedSeconds[Self] = now - workshopStartedAt[Self]
     /\ isRunning[Self] /\ timerInterval[Self]
     /\ isWorkshopRunning[Self]
     /\ phase[Self] = lastTimerMsg.phase

\* C12 witness: a client that loaded a session without started_at has
\* processed a timer_sync whose T0 lies two seconds back, for a phase
\* other than the initial one.
C12_Witness ==
  /\ lastTimerMsg.kind = "timer_sync" /\ ~isPaused[Self]
  /\ sessionStartedAt[Self] = -1
  /\ lastTimerMsg.elapsed = 2 /\ elapsedSeconds[Self] = 2
  /\ lastTimerMsg.phase = "event_refinement"
  /\ isRunning[Self]

\* The clients that have joined, other than c, with nothing left to
\* handle.
SettledOthers(c) == {d \in Connected \ {c} : inbox[d] = <<>>}

\* C13: right after a client has handled the timer_sync answering its
\* join, its paused flag equals that of every already-joined client that
\* has handled every event sent to it, and where that client is paused
\* the two elapsed values are equal.
C13_JoinerAgrees ==
  lastTimerMsg.kind \in {"timer_sync", "timer_sync_unstarted"} =>
    \A d \in SettledOthers(lastTimerMsg.to) :
      /\ isPaused[lastTimerMsg.to] = isPaused[d]
      /\ isPaused[d] =>
           elapsedSeconds[lastTimerMsg.to] = elapsedSeconds[d]

\* No timer event is waiting to be handled by any client.
RoomSettled == \A c \in Clients : inbox[c] = <<>>

\* The timer of c is in one of not started, running, paused: isPaused
\* only if the workshop is started, and the local tick (isRunning) only
\* if the store says started and not paused.
OneTimerState(c) ==
  /\ isPaused[c] => isWorkshopRunning[c]
  /\ isRunning[c] => (isWorkshopRunning[c] /\ ~isPaused[c])

C16_TickOnlyWhenRunning ==
  [][(IntervalTick(Self) /\ elapsedSeconds'[Self] # elapsedSeconds[Self]) =>
       /\ isRunning[Self]
       /\ ~isPaused[Self]
       /\ elapsedSeconds'[Self] = elapsedSeconds[Self] + 1]_vars

\* C16 witness: a tick has just counted the second second of a running,
\* unpaused timer.
C16_Witness ==
  /\ lastTimerMsg.kind = "tick" /\ ~lastTimerMsg.paused
  /\ lastTimerMsg.elapsed = 2 /\ elapsedSeconds[Self] = 2
  /\ isRunning[Self] /\ ~isPaused[Self]

\* The elapsed value at which each warning of phase ph and of the whole
\* session falls due.
ThresholdAt(ph) ==
  {<<PhaseKey(ph, "5min"), PhaseEndSeconds(PhaseIndex(ph)) - FiveMinutes>>,
   <<PhaseKey(ph, "1min"), PhaseEndSeconds(PhaseIndex(ph)) - OneMinute>>,
   <<PhaseKey(ph, "end"), PhaseEndSeconds(PhaseIndex(ph))>>,
   <<Total10Key, TotalSeconds - TenMinutes>>,
   <<Total5Key, TotalSeconds - FiveMinutes>>,
   <<WorkshopEndKey, TotalSeconds>>}

\* C15: no notification is raised twice between resets, and once a tick
\* has counted and checked the time events, every threshold of the
\* current phase and of the session that the elapsed value has reached or
\* passed since the reset has been notified.  (In SpecThresholds the
\* elapsed value starts at 0 at the mount and after a reset.)
C15_EachThresholdOnce ==
  /\ raised[Self].again = {}
  /\ (lastTimerMsg.kind = "tick" /\ ~lastTimerMsg.paused) =>
       \A kp \in ThresholdAt(phase[Self]) :
         kp[2] <= elapsedSeconds[Self] => kp[1] \in raised[Self].once

\* ------------------------------------------------------- agent claims

\* The clients that host the agent.
AIHosts == {c \in Clients : isAIHost[c]}

\* C17: at most one client is host of the AI agent, and no client has
\* dialled the agent after it handled ai_connected from another client.
C17_SingleAIHost ==
  /\ Cardinality(AIHosts) <= 1
  /\ \A c \in Clients : ~aiPanel[c].dialledTold

\* C18: a step in which the hosting client's panel disconnects leaves the
\* panel's agent connection closed, no 'ai-facilitator' entry in the
\* registry, isAIHost and aiConnected false, and emits ai_disconnected.
C18_TeardownClearsAgent ==
  [][\A c \in AgentClients :
       (isAIHost[c] /\ aiPanel[c].peerConnection = "open"
          /\ aiPanel'[c].peerConnection = "closed") =>
         /\ AI \notin DOMAIN peers'[c]
         /\ ~isAIHost'[c]
         /\ ~aiConnected'[c]
         /\ \E i \in 1..Len(out') : out'[i].kind = "ai_disconnected"]_vars

\* The host holds a peer connection without a sender for the agent track.
AgentAudioMissing ==
  /\ isAIHost[Self]
  /\ \E k \in PeerConns :
       Carrying(conns[Self][k], AITrack(aiAudioStream[Self])) = {}

\* C19: whenever the host holds a peer connection that does not carry the
\* agent track, eventually every peer connection it holds carries it.
C19_AgentAudioEverywhere == AgentAudioMissing ~> ~AgentAudioMissing

\* ------------------------------------------------ acquisition claims

\* A getDisplayMedia call of Self ends in this step without a stream.
ScreenAcquisitionFails ==
  /\ screenPending'[Self] < screenPending[Self]
  /\ screenCount'[Self] = screenCount[Self]

\* C20: a step in which acquiring the camera/microphone or the screen
\* fails throws the error to the caller, emits nothing, and leaves
\* localStream, screenStream, isScreenSharing, the registry and every
\* connection with its senders as they were.
C20_FailedAcquisitionKeepsState ==
  [][(ScreenAcquisitionFails \/ InitLocalMediaFailed(Self)) =>
       /\ thrown' # NoError
       /\ out' = NoEmit
       /\ localStream' = localStream
       /\ screenStream' = screenStream
       /\ isScreenSharing' = isScreenSharing
       /\ liveScreens' = liveScreens
       /\ socket' = socket
       /\ peers' = peers
       /\ conns' = conns]_vars

\* C20 witness: a second getDisplayMedia has just failed while the first
\* screen is shared over two negotiated connections.
C20_Witness ==
  /\ thrown = "getDisplayMedia"
  /\ isScreenSharing[Self] /\ screenStream[Self] = 1
  /\ Cardinality(PeerConns) = 2
  /\ \A k \in PeerConns :
       Carrying(conns[Self][k], ScreenTrack(1)) # {}


\* --------------------------------------------------- AI connect claims

\* A step in which a connect to the agent failed: connectAI of the panel
\* set a new error.value, or connectAIRealtime threw.
ConnectFailure ==
  \/ /\ aiPanel'[Self].error # ""
     /\ aiPanel'[Self] # aiPanel[Self]
  \/ thrown' = "connectAIRealtime"

\* C21: a failure of the token request or of the SDP exchange with the
\* voice endpoint surfaces as a connect error (error.value of the panel,
\* the rethrown error of connectAIRealtime) and leaves the peer registry,
\* every peer connection and the local media state as they were.
C21_ConnectFailureKeepsPeers ==
  [][ConnectFailure =>
       /\ peers' = peers
       /\ conns' = conns
       /\ tasks' = tasks
       /\ mediaVars' = mediaVars]_vars

\* C21 witness: with a negotiated peer connection in the registry, the
\* panel's connectAI has failed and connectAIRealtime has just thrown at
\* the SDP exchange.
C21_Witness ==
  /\ thrown = "connectAIRealtime"
  /\ aiConnection[Self]
  /\ aiPanel[Self].error = "sdp"
  /\ \E p \in DOMAIN peers[Self] :
       /\ peers[Self][p].conn # 0
       /\ conns[Self][peers[Self][p].conn].local # "none"


\* ------------------------------------------- screen share end claims

\* C22: when the ended callback of a screen track fires, the step is a
\* step of stopScreenShare (every field of the store and the messages
\* emitted are what an explicit stop gives in that state), and while a
\* screen stream is held: screenStream is cleared, isScreenSharing is
\* false, the video sender of every connection of the registry carries
\* the camera track again, and one screen_share_stop is emitted.
C22_EndedIsStop ==
  [][\A k \in liveScreens[Self] :
       (ScreenTrackEnded(Self, k) /\ screenEnded' = k) =>
         /\ \E live \in SUBSET liveScreens[Self] :
              /\ StopScreenShareFrom(Self, live)
              /\ UNCHANGED <<localStream, audioMuted, videoMuted,
                             screenCount, screenPending, socket,
                             peers, tasks, aiVars>>
         /\ screenStream[Self] # 0 =>
              /\ screenStream'[Self] = 0
              /\ ~isScreenSharing'[Self]
              /\ out' = Emit(Self, <<ScreenShareStopMsg>>)
              /\ localStream[Self].video =>
                   \A j \in PeerConns :
                     LET pc == conns'[Self][j]
                     IN VideoSender(pc.senders) # 0 =>
                          pc.senders[VideoSender(pc.senders)] = CamTrack]_vars

\* C22 witness: the track of the screen stream shared over two
\* connections has just ended outside the application; the store holds
\* no screen stream, both connections carry the camera track and
\* screen_share_stop has been emitted.
C22_Witness ==
  /\ screenEnded # 0
  /\ screenStream[Self] = 0
  /\ ~isScreenSharing[Self]
  /\ out = <<ScreenShareStopMsg>>
  /\ Cardinality(PeerConns) = 2
  /\ \A j \in PeerConns : Carrying(conns[Self][j], CamTrack) # {}


\* ------------------------------------------------------ muting claims

\* C23 as stated: each toggleAudio / toggleVideo flips the enabled flag of
\* the local track of its kind, sets audioMuted / videoMuted to the
\* negation of that flag, and emits one mute-status message carrying both
\* muted flags as they then are; a second toggle of the same kind gives
\* back the flags (enabled and muted) that held before the first.
C23_ToggleFlipsAndRestores ==
  [][/\ (ToggleAudio(Self) /\ localStream[Self].audio) =>
          /\ localStream'[Self].audioEnabled = ~localStream[Self].audioEnabled
          /\ audioMuted'[Self] = ~localStream'[Self].audioEnabled
          /\ out' = <<VideoMuteMsg(Self, audioMuted'[Self],
                                   videoMuted'[Self])>>
          /\ ToggledAudio(MuteFlags(Self)') = MuteFlags(Self)
     /\ (ToggleVideo(Self) /\ localStream[Self].video) =>
          /\ localStream'[Self].videoEnabled = ~localStream[Self].videoEnabled
          /\ videoMuted'[Self] = ~localStream'[Self].videoEnabled
          /\ out' = <<VideoMuteMsg(Self, audioMuted'[Self],
                                   videoMuted'[Self])>>
          /\ ToggledVideo(MuteFlags(Self)') = MuteFlags(Self)]_vars


\* --------------------------------------------------- transport claims

\* C24 as stated: when the signaling transport disconnects (connected
\* goes from true to false), every connection of the registry is closed,
\* the registry is emptied and the local stream is released.
C24_TransportDownTearsDown ==
  [][(connected[Self] /\ ~connected'[Self]) =>
       /\ \A k \in RegistryConns(peers[Self]) : conns'[Self][k].closed
       /\ peers'[Self] = EmptyMap
       /\ ~localStream'[Self].has]_vars


\* ------------------------------------------------ cancellation claims

\* C25 as stated: once p has left, a client that has handled every event
\* sent to it (video_peer_left{p} among them) and has no handler
\* suspended at an await holds no registry entry for p.
C25_LeftPeerForgotten ==
  \A c \in room : \A p \in Range(joinSeq) \ room :
    (inbox[c] = <<>> /\ tasks[c] = {}) => p \notin DOMAIN peers[c]


\* ------------------------------------------------ independence claims

\* The registry entries of Self other than those of the peers in P, and
\* the connections they reference, are after the step what they were
\* before it.
OthersUntouched(P) ==
  \A q \in DOMAIN peers[Self] \ P :
    /\ q \in DOMAIN peers'[Self]
    /\ peers'[Self][q] = peers[Self][q]
    /\ peers[Self][q].conn # 0 =>
         conns'[Self][peers[Self][q].conn] = conns[Self][peers[Self][q].conn]

\* C26: a negotiation step for a peer (the connection created, the offer
\* or the answer created, applied and sent, an answer or an ICE candidate
\* received, a candidate gathered, an inbound track) changes no registry
\* entry and no connection of any other peer.  A step that continues the
\* video_peers loop finishes the offer to one peer and creates the
\* connection of the next: it is a step for both.
C26_OtherEntriesUntouched ==
  [][/\ \A list \in Snapshots \ {<<>>} :
          HandleVideoPeers(Self, list) => OthersUntouched({Head(list)})
     /\ \A t \in tasks[Self] :
          ResumeCreateOffer(Self, t) =>
            OthersUntouched({t.peer} \cup
                            (IF t.rest = <<>> THEN {} ELSE {Head(t.rest)}))
     /\ \A t \in tasks[Self] :
          ResumeHandleOffer(Self, t) => OthersUntouched({t.peer})
     /\ \A p \in Remotes :
          (\/ HandleVideoOffer(Self, p)
           \/ HandleVideoAnswer(Self, p)
           \/ HandleIceCandidate(Self, p)) => OthersUntouched({p})
     /\ \A k \in 1..Len(conns[Self]) :
          (OnTrack(Self, k) \/ OnIceCandidate(Self, k)) =>
            OthersUntouched({conns[Self][k].peer})]_vars

\* C26 witness: while the offer to one peer is still being created, the
\* other peer's connection has its answer, a candidate and its inbound
\* stream.
C26_Witness ==
  \E t \in tasks[Self] : \E q \in DOMAIN peers[Self] \ {t.peer} :
    /\ peers[Self][q].conn # 0
    /\ peers[Self][q].stream # 0
    /\ conns[Self][peers[Self][q].conn].remote = "answer"
    /\ conns[Self][peers[Self][q].conn].ice
    /\ peers[Self][t.peer].conn = t.pc


\* ------------------------------------------------------ answer claims

\* Self's negotiation with the peer of connection pc is in offer_sent:
\* the offer is applied locally and sent, no answer is applied.
OfferSent(pc) == ~pc.closed /\ pc.local = "offer" /\ pc.remote = "none"

OfferPending(k) ==
  \E t \in tasks[Self] : t.kind = "video_offer" /\ t.pc = k

\* The steps of answering an offer, in order: the step that handles
\* video_offer from p creates the connection with the local tracks
\* attached, stores it under p and sends nothing; a step sends
\* video_answer only as one message, on a connection whose handleOffer
\* was pending and unanswered, to that connection's peer, and with the
\* offer applied as remote description by then.
AnswerInOrder ==
  /\ \A p \in Remotes :
       HandleVideoOffer(Self, p) =>
         LET k == Len(conns[Self]) + 1
         IN /\ Len(conns'[Self]) = k
            /\ conns'[Self][k].senders = GetTracks(localStream[Self])
            /\ conns'[Self][k].remote = "none"
            /\ peers'[Self][p].conn = k
            /\ \E t \in tasks'[Self] : t.kind = "video_offer" /\ t.pc = k
            /\ out' = NoEmit
  /\ (\E i \in 1..Len(out') : out'[i].kind = "video_answer") =>
       /\ Len(out') = 1
       /\ \E k \in 1..Len(conns[Self]) :
            /\ OfferPending(k)
            /\ ~OfferPending(k)'
            /\ conns[Self][k].local = "none"
            /\ conns'[Self][k].remote = "offer"
            /\ conns'[Self][k].local = "answer"
            /\ out'[1].target = conns[Self][k].peer

\* C28 as stated: an offer received from p is answered in order
\* (connection created with the local tracks, offer applied, then exactly
\* one video_answer to p, never before the offer is applied), and every
\* offer received is answered.
C28_EveryOfferAnswered ==
  /\ [][AnswerInOrder]_vars
  /\ \A k \in 1..MaxConns :
       OfferPending(k) ~>
         (/\ ~OfferPending(k)
          /\ k \in 1..Len(conns[Self])
          /\ conns[Self][k].local = "answer")

\* C28 amended: an offer received from p is answered in order, and every
\* pending handleOffer ends with its answer sent unless its connection
\* was closed meanwhile (p left, or the store disconnected).
C28_OfferAnsweredInOrder ==
  /\ [][AnswerInOrder]_vars
  /\ \A k \in 1..MaxConns :
       OfferPending(k) ~>
         (/\ ~OfferPending(k)
          /\ k \in 1..Len(conns[Self])
          /\ (conns[Self][k].local = "answer" \/ conns[Self][k].closed))

\* C28 witness: the answer to an offer has just been sent to its sender,
\* over a connection that carries both local tracks and has the offer
\* applied.
C28_Witness ==
  \E p \in DOMAIN peers[Self] :
    /\ out = <<Msg("video_answer", Self, p, <<>>)>>
    /\ peers[Self][p].conn # 0
    /\ conns[Self][peers[Self][p].conn].remote = "offer"
    /\ conns[Self][peers[Self][p].conn].local = "answer"
    /\ conns[Self][peers[Self][p].conn].senders = <<MicTrack, CamTrack>>


\* ------------------------------------------------- unknown sender claims

\* The step changes nothing of the store, sends nothing and throws
\* nothing.
Dropped ==
  /\ peers' = peers
  /\ conns' = conns
  /\ tasks' = tasks
  /\ mediaVars' = mediaVars
  /\ out' = NoEmit
  /\ thrown' = NoError

\* C29: an answer or an ICE candidate from a sender that has no registry
\* entry, or whose entry has no connection yet, and a mute status from a
\* sender that has no entry, is dropped: the registry is unchanged (no
\* entry is created), nothing is sent and no error is raised.
C29_UnknownSenderDropped ==
  [][\A p \in Remotes :
       /\ ((HandleVideoAnswer(Self, p) \/ HandleIceCandidate(Self, p))
            /\ ~HasConnection(Self, p)) => Dropped
       /\ \A am, vm \in BOOLEAN :
            (HandleVideoMuteStatus(Self, p, am, vm)
             /\ p \notin DOMAIN peers[Self]) => Dropped]_vars

\* C29 witness: a message of a sender without a connection has just been
\* handled while the registry holds an entry awaiting its offer (no
\* connection yet) beside a negotiated one.
C29_Witness ==
  /\ unmatched
  /\ \E p, q \in DOMAIN peers[Self] :
       /\ peers[Self][p].conn = 0
       /\ peers[Self][q].conn # 0
       /\ conns[Self][peers[Self][q].conn].remote # "none"


\* ----------------------------------------------- workshop start claims

\* C30: start_workshop is emitted only from a state in which
\* isWorkshopRunning is false; isWorkshopRunning, once true, stays true;
\* and a toggle made while it is true emits one pause_timer (pause or
\* resume) with the elapsed value, never start_workshop.
C30_StartOnlyWhenNotRunning ==
  [][/\ isWorkshopRunning[Self] => isWorkshopRunning'[Self]
     /\ (\E i \in 1..Len(out') : out'[i].kind = "start_workshop") =>
          ~isWorkshopRunning[Self]
     /\ (ToggleTimer(Self) /\ isWorkshopRunning[Self]) =>
          \E paused \in BOOLEAN :
            out' = <<PauseTimerMsg(Self, paused, elapsedSeconds[Self])>>]_vars

\* C30 witness: with the workshop running, the client has just toggled
\* its stopped timer: the tick runs again and pause_timer{paused: false}
\* was emitted.
C30_Witness ==
  /\ isWorkshopRunning[Self]
  /\ isRunning[Self]
  /\ out = <<PauseTimerMsg(Self, FALSE, elapsedSeconds[Self])>>


\* ------------------------------------------------- connection ownership

\* The registry entries of Self that reference connection k.
Referencing(k) == {p \in DOMAIN peers[Self] : peers[Self][p].conn = k}

\* Every connection the client has created is referenced by exactly one
\* registry entry or is closed.
ConnectionsOwned ==
  \A k \in 1..Len(conns[Self]) :
    conns[Self][k].closed \/ Cardinality(Referencing(k)) = 1

\* C31: every connection is owned at the start, and a video_offer or a
\* video_peer_joined handled while every connection is owned (a second
\* offer, a re-delivered video_peer_joined included) leaves every
\* connection owned.
C31_OpenConnectionsOwned ==
  /\ ConnectionsOwned
  /\ [][(/\ ConnectionsOwned
          /\ \E p \in Remotes : \/ HandleVideoOffer(Self, p)
                                \/ HandleVideoPeerJoined(Self, p))
          => ConnectionsOwned']_vars


\* --------------------------------------------------- screen share claims

\* No startScreenShare is waiting for its screen.
ScreenQuiescent == screenPending[Self] = 0

\* C32: in every quiescent state isScreenSharing is true if and only if a
\* screen stream is held.
C32_SharingIffStream ==
  ScreenQuiescent => (isScreenSharing[Self] <=> screenStream[Self] # 0)


\* The last step emitted the screen share message m.
Emitted(m) == \E i \in 1..Len(out') : out'[i] = m

\* C33: once no startScreenShare is waiting, the only screen stream
\* still live is the one the store holds; and screen_share_start and
\* screen_share_stop alternate, beginning with start.  A stream is held
\* exactly from the step that emitted screen_share_start to the next
\* step that clears it, so alternation requires that start is emitted
\* only when no stream was held and stop only when one was.
C33_OneStreamAlternating ==
  /\ [](ScreenQuiescent => liveScreens[Self] \subseteq {screenStream[Self]})
  /\ [][/\ Emitted(ScreenShareStartMsg) => screenStream[Self] = 0
        /\ Emitted(ScreenShareStopMsg) => screenStream[Self] # 0]_vars


\* ------------------------------------------------------ interval claims

\* C34: at most one interval of the timer component is active, and
\* isRunning is true exactly when an interval handle is held (the handle
\* of the active interval).
C34_OneIntervalIffRunning ==
  /\ intervals[Self] <= 1
  /\ isRunning[Self] <=> timerInterval[Self]
  /\ timerInterval[Self] <=> intervals[Self] = 1

\* C34 witness: the workshop ended on a tick, which stopped the interval,
\* and the timer was started again since: one interval is active.
C34_Witness ==
  /\ WorkshopEndKey \in warningsSent[Self]
  /\ isRunning[Self]
  /\ intervals[Self] = 1


\* workshopEnd has been raised: a tick found the remaining total time at
\* 0 and stopped the timer.
WorkshopEnded == WorkshopEndKey \in warningsSent[Self]

\* The timer events a client adopts from the others.
RemoteTimerKinds == {"timer_paused", "workshop_started", "timer_sync"}

\* C35: once workshopEnd was raised, handling timer_paused,
\* workshop_started or timer_sync leaves the tick stopped, and no tick
\* advances elapsedSeconds.
C35_EndedStaysStopped ==
  [][WorkshopEnded =>
       /\ lastTimerMsg'.kind \in RemoteTimerKinds =>
            ~isRunning'[Self] /\ intervals'[Self] = 0
       /\ lastTimerMsg'.kind = "tick" =>
            elapsedSeconds'[Self] = elapsedSeconds[Self]]_vars


\* ------------------------------------------------ concurrent start claims

\* Every timer event sent to a client of the room has been handled.
StartSettled ==
  \A c \in RoomClients : mounted[c] /\ inbox[c] = <<>>

\* C36: once every event is handled, the clients hold the same
\* workshopStartedAt; and the client that handles workshop_started takes
\* the start the event carries and sets its elapsed time to the time
\* since that start.
C36_SameStartEverywhere ==
  /\ [](StartSettled =>
         \A c, d \in RoomClients :
           workshopStartedAt[c] = workshopStartedAt[d])
  /\ [][lastTimerMsg'.kind = "workshop_started" =>
         LET c == lastTimerMsg'.to
         IN /\ workshopStartedAt'[c] = now - lastTimerMsg'.elapsed
            /\ elapsedSeconds'[c] = now - workshopStartedAt'[c]]_vars

\* C36 witness: two starts were announced with different start times; A
\* has handled both, B the first, and the second waits in B's inbox.
C36_Witness ==
  /\ inbox["A"] = <<>>
  /\ Len(inbox["B"]) = 1
  /\ inbox["B"][1].kind = "workshop_started"
  /\ workshopStartedAt["B"] # -1
  /\ inbox["B"][1].list[1] # workshopStartedAt["B"]
  /\ workshopStartedAt["A"] = inbox["B"][1].list[1]


\* ----------------------------------------------------------- reset claims

\* C37: the reset button sets elapsedSeconds to 0 and empties the
\* notified set, emits nothing, and leaves isRunning, the interval and
\* the store's workshopStartedAt, isWorkshopRunning, isPaused and
\* syncedElapsedSeconds as they were.
C37_ResetIsLocal ==
  [][(mounted[Self] /\ mounted'[Self] /\ ResetTimer(Self)) =>
       /\ elapsedSeconds'[Self] = 0
       /\ warningsSent'[Self] = {}
       /\ out' = NoEmit
       /\ UNCHANGED <<isRunning, timerInterval, intervals,
                      workshopStartedAt, isWorkshopRunning, isPaused,
                      syncedElapsedSeconds>>]_vars

\* C37 witness: the timer runs, unpaused, on a workshop started earlier,
\* and its elapsed time is back at 0 with nothing notified.
C37_Witness ==
  /\ mounted[Self]
  /\ isRunning[Self] /\ intervals[Self] = 1
  /\ isWorkshopRunning[Self] /\ ~isPaused[Self]
  /\ workshopStartedAt[Self] # -1 /\ workshopStartedAt[Self] < now
  /\ syncedElapsedSeconds[Self] > 0
  /\ elapsedSeconds[Self] = 0
  /\ warningsSent[Self] = {}
  /\ lastTimerMsg = NoTimerMsg
  /\ out = NoEmit


\* ----------------------------------------------------------- phase claims

\* C38: whichever clients' timers expire, and however often each issues
\* update_phase, a step changes the session phase only to the successor
\* of the phase it had: one step forward per expiry, never a phase
\* skipped, and no change once the last phase is reached.
C38_PhaseAdvancesByOne ==
  [][serverPhase' # serverPhase =>
       serverPhase' = GetNextPhase(serverPhase)]_vars


\* -------------------------------------------------------- AI state claims

\* C39: aiConnected only with the 'ai-facilitator' entry in the registry
\* and an agent audio stream held; isAIHost only with aiConnected.
C39_AIFlagsConsistent ==
  /\ aiConnected[Self] =>
       AI \in DOMAIN peers[Self] /\ aiAudioStream[Self] # 0
  /\ isAIHost[Self] => aiConnected[Self]

====
